---- MODULE Spec2Model ----
(***************************************************************************)
(* Signal-detection and backtest-evaluation engine of realFx1h.            *)
(*                                                                         *)
(* Prices are integers in units of 0.0001 (one non-JPY pip); arithmetic is *)
(* exact.  A candle series (pandas DataFrame) is a sequence of candle      *)
(* records; Python's 0-based position k is element k+1 of the sequence.    *)
(* A cluster mean (np.mean) is kept as the exact fraction sum/n.           *)
(***************************************************************************)
EXTENDS Integers, Sequences, FiniteSets, TLC

(***************************************************************************)
(* Python / pandas helpers                                                 *)
(***************************************************************************)
Abs(x) == IF x < 0 THEN -x ELSE x

Min2(a, b) == IF a < b THEN a ELSE b

Max2(a, b) == IF a > b THEN a ELSE b

\* Python's None for an optional integer argument, and a present value.
None == <<>>

Some(i) == <<i>>

\* A function that may raise: [raised, value].
Returned(v) == [raised |-> FALSE, value |-> v]

Raised == [raised |-> TRUE, value |-> "IndexError"]

\* The empty dict {} returned with "no signal" on an invalid index.
EmptyDict == [k \in {} |-> TRUE]

\* Python's None as a signal / pattern name.
NoSignal == "None"

\* df.iloc[k] for an in-range position k (negative k counts from the end).
Iloc(df, k) == IF k < 0 THEN df[Len(df) + k + 1] ELSE df[k + 1]

\* df.iloc[k] is in range.
IlocOk(df, k) == -Len(df) <= k /\ k < Len(df)

\* df.iloc[:stop] (stop may be negative or beyond the end).
Head_(df, stop) ==
    LET n == Len(df)
        s == IF stop < 0 THEN Max2(0, n + stop) ELSE Min2(stop, n)
    IN  SubSeq(df, 1, s)

\* df.iloc[-k:] for k >= 1.
Tail_(df, k) ==
    LET n == Len(df) IN SubSeq(df, Max2(1, n - k + 1), n)

\* df.iloc[start:stop] with start = -k (k >= 1) and stop = -1.
MidSlice(df, k) ==
    LET n == Len(df) IN SubSeq(df, Max2(1, n - k + 1), n - 1)

RECURSIVE SumSeq(_)
SumSeq(s) == IF s = <<>> THEN 0 ELSE Head(s) + SumSeq(Tail(s))

(***************************************************************************)
(* patterns.py : pip_size                                                  *)
(***************************************************************************)
JpySymbols == {"USDJPY"}

\* 0.01 if 'JPY' in symbol else 0.0001, in units of 0.0001.
pip_size(symbol) == IF symbol \in JpySymbols THEN 100 ELSE 1

(***************************************************************************)
(* scipy.signal.argrelextrema(values, comparator, order) with mode='clip': *)
(* the 0-based positions j whose value compares strictly against the       *)
(* values at j-s and j+s, s = 1..order, positions clipped to the array.    *)
(***************************************************************************)
ExtremaOrder == 5

Clip(j, n) == IF j < 0 THEN 0 ELSE IF j > n - 1 THEN n - 1 ELSE j

argrelextrema_less(vals, order) ==
    LET n == Len(vals)
        IsMin(j) == \A s \in 1..order :
                       /\ vals[j + 1] < vals[Clip(j + s, n) + 1]
                       /\ vals[j + 1] < vals[Clip(j - s, n) + 1]
    IN  SelectSeq([k \in 1..n |-> k - 1], IsMin)

argrelextrema_greater(vals, order) ==
    LET n == Len(vals)
        IsMax(j) == \A s \in 1..order :
                       /\ vals[j + 1] > vals[Clip(j + s, n) + 1]
                       /\ vals[j + 1] > vals[Clip(j - s, n) + 1]
    IN  SelectSeq([k \in 1..n |-> k - 1], IsMax)

(***************************************************************************)
(* patterns.py : find_support_resistance_levels / cluster_levels           *)
(***************************************************************************)
\* np.mean(current_cluster), exact.
Mean(cluster) == [sum |-> SumSeq(cluster), n |-> Len(cluster)]

\* abs(price - level) <= pips for a level sum/n.
Within(price, level, pips) == Abs(price * level.n - level.sum) <= pips * level.n

RECURSIVE ClusterSweep(_, _, _, _)
ClusterSweep(rest, current_cluster, clusters, pips) ==
    IF rest = <<>>
    THEN Append(clusters, Mean(current_cluster))
    ELSE LET price == Head(rest) IN
         IF price - current_cluster[Len(current_cluster)] <= pips
         THEN ClusterSweep(Tail(rest), Append(current_cluster, price), clusters, pips)
         ELSE ClusterSweep(Tail(rest), <<price>>,
                           Append(clusters, Mean(current_cluster)), pips)

\* Mutant: a price joins the cluster when it is within pips of the cluster
\* mean instead of the last-added member.
RECURSIVE ClusterSweepByMean(_, _, _, _)
ClusterSweepByMean(rest, current_cluster, clusters, pips) ==
    IF rest = <<>>
    THEN Append(clusters, Mean(current_cluster))
    ELSE LET price == Head(rest) IN
         IF price * Len(current_cluster) - SumSeq(current_cluster)
               <= pips * Len(current_cluster)
         THEN ClusterSweepByMean(Tail(rest), Append(current_cluster, price), clusters, pips)
         ELSE ClusterSweepByMean(Tail(rest), <<price>>,
                                 Append(clusters, Mean(current_cluster)), pips)

cluster_levels_by_mean(levels, pips) ==
    IF Len(levels) = 0
    THEN <<>>
    ELSE LET sorted == SortSeq(levels, LAMBDA a, b : a < b)
         IN  ClusterSweepByMean(Tail(sorted), <<sorted[1]>>, <<>>, pips)

cluster_levels(levels, pips) ==
    IF Len(levels) = 0
    THEN <<>>
    ELSE LET sorted == SortSeq(levels, LAMBDA a, b : a < b)
         IN  ClusterSweep(Tail(sorted), <<sorted[1]>>, <<>>, pips)

\* Returns <<support_clusters, resistance_clusters>>.
find_support_resistance_levels(df, symbol, window, lookback) ==
    IF Len(df) < lookback
    THEN <<  <<>>, <<>>  >>
    ELSE LET pips == pip_size(symbol) * window
             data == Tail_(df, lookback)
             lows == [k \in 1..Len(data) |-> data[k].low]
             highs == [k \in 1..Len(data) |-> data[k].high]
             minima_idx == argrelextrema_less(lows, ExtremaOrder)
             maxima_idx == argrelextrema_greater(highs, ExtremaOrder)
             support_levels == [k \in 1..Len(minima_idx) |-> lows[minima_idx[k] + 1]]
             resistance_levels == [k \in 1..Len(maxima_idx) |-> highs[maxima_idx[k] + 1]]
         IN  << cluster_levels(support_levels, pips),
                cluster_levels(resistance_levels, pips) >>

(***************************************************************************)
(* patterns.py : triple_touch (level-based touch counter)                  *)
(***************************************************************************)
\* Mutant: a lookback of half the length.
DefaultLookback_halved == 100 \div 2

DefaultLookback == 100

\* Some level of `levels` lies within pips of price (the for/break loops).
TouchesAny(price, levels, pips) ==
    \E k \in 1..Len(levels) : Within(price, levels[k], pips)

\* Number of candles of recent_df whose high or low is within pips of level.
LevelTouches(recent_df, level, pips) ==
    Cardinality({i \in 1..Len(recent_df) :
                    \/ Within(recent_df[i].high, level, pips)
                    \/ Within(recent_df[i].low, level, pips)})

\* The counter of lines 86-94 / 97-105: for every level matched by the
\* current price, every touching candle of recent_df adds one.
RECURSIVE TouchCount(_, _, _, _)
TouchCount(levels, current_price, recent_df, pips) ==
    IF levels = <<>>
    THEN 0
    ELSE (IF Within(current_price, Head(levels), pips)
          THEN LevelTouches(recent_df, Head(levels), pips)
          ELSE 0)
         + TouchCount(Tail(levels), current_price, recent_df, pips)

\* df.iloc[-lookback:-1] if len(df) > lookback else df.iloc[:-1]
RecentDf(df, lookback) ==
    IF Len(df) > lookback THEN MidSlice(df, lookback) ELSE Head_(df, -1)

\* Returns <<touches_resistance, touches_support>>.
triple_touch(df, symbol, touches, window, lookback) ==
    IF Len(df) < lookback
    THEN <<FALSE, FALSE>>
    ELSE LET sr == find_support_resistance_levels(df, symbol, window, lookback)
             support_levels == sr[1]
             resistance_levels == sr[2]
             current_candle == Iloc(df, -1)
             current_high == current_candle.high
             current_low == current_candle.low
             pips == pip_size(symbol) * window
             touches_resistance == TouchesAny(current_high, resistance_levels, pips)
             touches_support == TouchesAny(current_low, support_levels, pips)
         IN  IF touches_resistance \/ touches_support
             THEN LET recent_df == RecentDf(df, lookback)
                      resistance_touch_count ==
                          IF touches_resistance
                          THEN TouchCount(resistance_levels, current_high, recent_df, pips)
                          ELSE 0
                      support_touch_count ==
                          IF touches_support
                          THEN TouchCount(support_levels, current_low, recent_df, pips)
                          ELSE 0
                  IN  << resistance_touch_count >= touches,
                         support_touch_count >= touches >>
             ELSE <<FALSE, FALSE>>

(***************************************************************************)
(* patterns.py : hammer / shooting_star                                    *)
(***************************************************************************)
Body(c) == Abs(c.close - c.open)

LowerShadow(c) == Min2(c.close, c.open) - c.low

UpperShadow(c) == c.high - Max2(c.close, c.open)

\* upper_shadow < body * 0.5 is 2 * upper_shadow < body in exact arithmetic.
hammer(df) ==
    IF Len(df) < 1
    THEN FALSE
    ELSE LET c == Iloc(df, -1) IN
         IF Body(c) = 0
         THEN FALSE
         ELSE LowerShadow(c) > 2 * Body(c) /\ 2 * UpperShadow(c) < Body(c)

shooting_star(df) ==
    IF Len(df) < 1
    THEN FALSE
    ELSE LET c == Iloc(df, -1) IN
         IF Body(c) = 0
         THEN FALSE
         ELSE UpperShadow(c) > 2 * Body(c) /\ 2 * LowerShadow(c) < Body(c)

(***************************************************************************)
(* patterns.py : rsi                                                       *)
(*                                                                         *)
(* The value is [nan, num, den] for the float num/den, or NaN.  With G and *)
(* L the sums of the gains and of the losses of the last `period` entries  *)
(* of delta (delta[0], NaN, counts as 0 on both sides):                    *)
(*   rs = G/L, rsi = 100 - 100/(1 + rs) = 100*G/(G+L)    when L > 0        *)
(*   rs = G/-0.0 = -inf, rsi = 100                       when L = 0 < G    *)
(*   rs = 0/-0.0 = NaN,  rsi = NaN                       when L = 0 = G    *)
(***************************************************************************)
DefaultRsiPeriod == 14

NaN == [nan |-> TRUE, num |-> 0, den |-> 1]

Num(n) == [nan |-> FALSE, num |-> n, den |-> 1]

\* rsi_val < x and rsi_val > x for an integer threshold x (False on NaN).
RsiLess(r, x) == ~r.nan /\ r.num < x * r.den

RsiGreater(r, x) == ~r.nan /\ r.num > x * r.den

\* delta = df['close'].diff() at 0-based position k >= 1.
Delta(df, k) == df[k + 1].close - df[k].close

rsi(df, period) ==
    IF Len(df) < period
    THEN Num(50)
    ELSE LET n == Len(df)
             \* positions of the last rolling window, position 0 excluded
             lo == Max2(1, n - period)
             G == SumSeq([i \in 1..(n - lo) |->
                            IF Delta(df, lo + i - 1) > 0 THEN Delta(df, lo + i - 1) ELSE 0])
             L == SumSeq([i \in 1..(n - lo) |->
                            IF Delta(df, lo + i - 1) < 0 THEN -Delta(df, lo + i - 1) ELSE 0])
         IN  IF L = 0
             THEN (IF G = 0 THEN NaN ELSE Num(100))
             ELSE [nan |-> FALSE, num |-> 100 * G, den |-> G + L]

(***************************************************************************)
(* patterns.py : get_signal / detect_setup_only                            *)
(***************************************************************************)
\* Line 193: the CALL conjunction.
CallCondition(touch_l, bull_hammer, rsi_val, c, candle_b_bullish) ==
    touch_l /\ bull_hammer /\ RsiLess(rsi_val, c.rsi_oversold) /\ candle_b_bullish

\* Mutant: the RSI test of the CALL line pasted into the PUT line.
PutCondition_pasted_rsi(touch_h, bear_star, rsi_val, c, candle_b_bearish) ==
    touch_h /\ bear_star /\ RsiLess(rsi_val, c.rsi_oversold) /\ candle_b_bearish

\* Line 198: the PUT conjunction.
PutCondition(touch_h, bear_star, rsi_val, c, candle_b_bearish) ==
    touch_h /\ bear_star /\ RsiGreater(rsi_val, c.rsi_overbought) /\ candle_b_bearish

\* Lines 177-178: direction of the last candle of the confirmation slice.
CandleBullish(candle_b_df) == Iloc(candle_b_df, -1).close > Iloc(candle_b_df, -1).open

CandleBearish(candle_b_df) == Iloc(candle_b_df, -1).close < Iloc(candle_b_df, -1).open

\* Mutant: the PUT branch returning the conditions without naming the pattern.
SignalFromSlices_unnamed_put(candle_a_df, candle_b_df, sym, c) ==
    LET tt == triple_touch(candle_a_df, sym, c.min_touches,
                           c.touch_window_pips, DefaultLookback)
        rsi_val == rsi(candle_a_df, DefaultRsiPeriod)
        conditions_info ==
            [candle_a_touch_h |-> tt[1],
             candle_a_touch_l |-> tt[2],
             candle_a_rsi |-> rsi_val,
             candle_a_hammer |-> hammer(candle_a_df),
             candle_a_shooting_star |-> shooting_star(candle_a_df),
             candle_b_bullish |-> CandleBullish(candle_b_df),
             candle_b_bearish |-> CandleBearish(candle_b_df),
             triggered_pattern |-> NoSignal]
    IN  IF CallCondition(tt[2], hammer(candle_a_df), rsi_val, c, CandleBullish(candle_b_df))
        THEN <<"CALL", [conditions_info EXCEPT !.triggered_pattern = "Hammer"]>>
        ELSE IF PutCondition(tt[1], shooting_star(candle_a_df), rsi_val, c,
                             CandleBearish(candle_b_df))
        THEN <<"PUT", conditions_info>>
        ELSE <<NoSignal, conditions_info>>

\* Lines 168-202, given the two slices.
SignalFromSlices(candle_a_df, candle_b_df, sym, c) ==
    LET tt == triple_touch(candle_a_df, sym, c.min_touches,
                           c.touch_window_pips, DefaultLookback)
        touch_h == tt[1]
        touch_l == tt[2]
        rsi_val == rsi(candle_a_df, DefaultRsiPeriod)
        bull_hammer == hammer(candle_a_df)
        bear_star == shooting_star(candle_a_df)
        candle_b_bullish == CandleBullish(candle_b_df)
        candle_b_bearish == CandleBearish(candle_b_df)
        conditions_info ==
            [candle_a_touch_h |-> touch_h,
             candle_a_touch_l |-> touch_l,
             candle_a_rsi |-> rsi_val,
             candle_a_hammer |-> bull_hammer,
             candle_a_shooting_star |-> bear_star,
             candle_b_bullish |-> candle_b_bullish,
             candle_b_bearish |-> candle_b_bearish,
             triggered_pattern |-> NoSignal]
    IN  IF CallCondition(touch_l, bull_hammer, rsi_val, c, candle_b_bullish)
        THEN <<"CALL", [conditions_info EXCEPT !.triggered_pattern = "Hammer"]>>
        ELSE IF PutCondition(touch_h, bear_star, rsi_val, c, candle_b_bearish)
        THEN <<"PUT", [conditions_info EXCEPT !.triggered_pattern = "Shooting Star"]>>
        ELSE <<NoSignal, conditions_info>>

\* Mutants of the historical slices: the setup slice reaching candle B, and
\* the confirmation candle taken from the latest candle of the series.
HistSliceA_through_b(d, hi) == Head_(d, hi + 1)

HistSliceB_latest(d, hi) == d

\* Lines 156-157: the slices of historical mode.
HistSliceA(d, hi) == Head_(d, hi)

HistSliceB(d, hi) == Head_(d, hi + 1)

\* Mutant: live mode taking the whole series, candle B included, as the
\* setup slice.
get_signal_live_whole(d, sym, c, historical_index) ==
    IF historical_index # None
    THEN LET hi == historical_index[1] IN
         IF hi < 1 \/ hi >= Len(d)
         THEN <<NoSignal, EmptyDict>>
         ELSE SignalFromSlices(HistSliceA(d, hi), HistSliceB(d, hi), sym, c)
    ELSE IF Len(d) < 2
         THEN <<NoSignal, EmptyDict>>
         ELSE SignalFromSlices(d, d, sym, c)

\* Mutant: the upper index check off by one (hi > len(df)).
get_signal_index_off_by_one(d, sym, c, historical_index) ==
    IF historical_index # None
    THEN LET hi == historical_index[1] IN
         IF hi < 1 \/ hi > Len(d)
         THEN <<NoSignal, EmptyDict>>
         ELSE SignalFromSlices(HistSliceA(d, hi), HistSliceB(d, hi), sym, c)
    ELSE IF Len(d) < 2
         THEN <<NoSignal, EmptyDict>>
         ELSE SignalFromSlices(Head_(d, -1), d, sym, c)

\* Returns <<signal, conditions_info>>.
get_signal(d, sym, c, historical_index) ==
    IF historical_index # None
    THEN LET hi == historical_index[1] IN
         IF hi < 1 \/ hi >= Len(d)
         THEN <<NoSignal, EmptyDict>>
         ELSE SignalFromSlices(HistSliceA(d, hi), HistSliceB(d, hi), sym, c)
    ELSE IF Len(d) < 2
         THEN <<NoSignal, EmptyDict>>
         ELSE SignalFromSlices(Head_(d, -1), d, sym, c)

\* Lines 220-248, given the setup slice.
SetupFromSlice(candle_a_df, sym, c) ==
    LET tt == triple_touch(candle_a_df, sym, c.min_touches,
                           c.touch_window_pips, DefaultLookback)
        touch_h == tt[1]
        touch_l == tt[2]
        rsi_val == rsi(candle_a_df, DefaultRsiPeriod)
        bull_hammer == hammer(candle_a_df)
        bear_star == shooting_star(candle_a_df)
        conditions_info ==
            [candle_a_touch_h |-> touch_h,
             candle_a_touch_l |-> touch_l,
             candle_a_rsi |-> rsi_val,
             candle_a_hammer |-> bull_hammer,
             candle_a_shooting_star |-> bear_star,
             triggered_pattern |-> NoSignal]
    IN  IF touch_l /\ bull_hammer /\ RsiLess(rsi_val, c.rsi_oversold)
        THEN <<"CALL", [conditions_info EXCEPT !.triggered_pattern = "Hammer"]>>
        ELSE IF touch_h /\ bear_star /\ RsiGreater(rsi_val, c.rsi_overbought)
        THEN <<"PUT", [conditions_info EXCEPT !.triggered_pattern = "Shooting Star"]>>
        ELSE <<NoSignal, conditions_info>>

\* Mutant: the setup slice of historical mode ending one candle before A.
detect_setup_only_one_early(d, sym, c, historical_index) ==
    IF historical_index # None
    THEN LET hi == historical_index[1] IN
         IF hi < 1 \/ hi >= Len(d)
         THEN <<NoSignal, EmptyDict>>
         ELSE SetupFromSlice(Head_(d, hi - 1), sym, c)
    ELSE IF Len(d) < 2
         THEN <<NoSignal, EmptyDict>>
         ELSE SetupFromSlice(Head_(d, -1), sym, c)

\* Mutant: the setup slice of historical mode reaching candle B.
detect_setup_only_through_b(d, sym, c, historical_index) ==
    IF historical_index # None
    THEN LET hi == historical_index[1] IN
         IF hi < 1 \/ hi >= Len(d)
         THEN <<NoSignal, EmptyDict>>
         ELSE SetupFromSlice(Head_(d, hi + 1), sym, c)
    ELSE IF Len(d) < 2
         THEN <<NoSignal, EmptyDict>>
         ELSE SetupFromSlice(Head_(d, -1), sym, c)

detect_setup_only(d, sym, c, historical_index) ==
    IF historical_index # None
    THEN LET hi == historical_index[1] IN
         IF hi < 1 \/ hi >= Len(d)
         THEN <<NoSignal, EmptyDict>>
         ELSE SetupFromSlice(Head_(d, hi), sym, c)
    ELSE IF Len(d) < 2
         THEN <<NoSignal, EmptyDict>>
         ELSE SetupFromSlice(Head_(d, -1), sym, c)

(***************************************************************************)
(* patterns.py : get_support_resistance_price                              *)
(***************************************************************************)
NoLevelType == "None"

\* The first level of levels (in array order) within pips of price, if any.
FirstWithin(price, levels, pips) ==
    LET hits == {k \in 1..Len(levels) : Within(price, levels[k], pips)}
    IN  IF hits = {} THEN None ELSE Some(levels[CHOOSE k \in hits : \A j \in hits : k <= j])

\* Lines 267-287, given candle A and the levels.
LevelTouched(candle_a, sr, pips, conditions) ==
    LET s == IF conditions.candle_a_touch_l
             THEN FirstWithin(candle_a.low, sr[1], pips)
             ELSE None
        r == IF conditions.candle_a_touch_h
             THEN FirstWithin(candle_a.high, sr[2], pips)
             ELSE None
    IN  IF s # None THEN <<s, "Support">>
        ELSE IF r # None THEN <<r, "Resistance">>
        ELSE <<None, NoLevelType>>

\* Returns [raised, value], value = <<price_level, level_type>>; price_level is
\* None or Some(level).  Line 267 passes the whole df to
\* find_support_resistance_levels; candle_a_df of line 259 is not used.
get_support_resistance_price(d, sym, c, conditions, historical_index) ==
    LET pips == pip_size(sym) * c.touch_window_pips
        sr == find_support_resistance_levels(d, sym, c.touch_window_pips, 100)
    IN  IF historical_index # None
        THEN LET hi == historical_index[1] IN
             IF hi < 1
             THEN Returned(<<None, NoLevelType>>)
             ELSE IF ~IlocOk(d, hi - 1)
             THEN Raised
             ELSE Returned(LevelTouched(Iloc(d, hi - 1), sr, pips, conditions))
        ELSE IF Len(d) < 2
             THEN Returned(<<None, NoLevelType>>)
             ELSE Returned(LevelTouched(Iloc(d, -2), sr, pips, conditions))

(***************************************************************************)
(* pattern.py : the rolling-window touch counter and its pattern set       *)
(***************************************************************************)
RollingExtremeWindow == 50

RollingTouchWindow == 30

SetMax(S) == CHOOSE m \in S : \A x \in S : m >= x

SetMin(S) == CHOOSE m \in S : \A x \in S : m <= x

\* Row k (1-based) of (df['high'] >= highs - pips) & (df['high'] <= highs + pips),
\* highs = df['high'].rolling(50).max(): NaN, hence False, before row 50.
RollingTouchHigh(df, k, pips) ==
    /\ k >= RollingExtremeWindow
    /\ LET m == SetMax({df[i].high : i \in (k - RollingExtremeWindow + 1)..k})
       IN  df[k].high >= m - pips /\ df[k].high <= m + pips

RollingTouchLow(df, k, pips) ==
    /\ k >= RollingExtremeWindow
    /\ LET m == SetMin({df[i].low : i \in (k - RollingExtremeWindow + 1)..k})
       IN  df[k].low >= m - pips /\ df[k].low <= m + pips

\* pattern.triple_touch: .rolling(30).sum() is NaN before row 30 (NaN >= touches
\* is False), and .iloc[-1] of an empty Series raises IndexError.
rolling_triple_touch(df, symbol, touches, window) ==
    LET n == Len(df)
        pips == pip_size(symbol) * window
        rows == (n - RollingTouchWindow + 1)..n
        touch_h == Cardinality({k \in rows : RollingTouchHigh(df, k, pips)})
        touch_l == Cardinality({k \in rows : RollingTouchLow(df, k, pips)})
    IN  IF n = 0
        THEN Raised
        ELSE IF n < RollingTouchWindow
        THEN Returned(<<FALSE, FALSE>>)
        ELSE Returned(<<touch_h >= touches, touch_l >= touches>>)

\* pattern.engulfing; ratio10 is the ratio in tenths (1.3 -> 13).
engulfing(df, ratio10) ==
    IF Len(df) < 2
    THEN <<FALSE, FALSE>>
    ELSE LET prev == Iloc(df, -2)
             curr == Iloc(df, -1)
             bigger == 10 * Body(curr) > ratio10 * Body(prev)
         IN  << curr.close > curr.open /\ prev.close < prev.open /\ bigger,
                curr.close < curr.open /\ prev.close > prev.open /\ bigger >>

\* pattern.hammer / pattern.shooting_star: the loose variant, no body check.
loose_hammer(df) ==
    IF Len(df) < 1
    THEN FALSE
    ELSE LET c == Iloc(df, -1) IN
         LowerShadow(c) > 2 * Body(c) /\ UpperShadow(c) < Body(c)

loose_shooting_star(df) ==
    IF Len(df) < 1
    THEN FALSE
    ELSE LET c == Iloc(df, -1) IN
         UpperShadow(c) > 2 * Body(c) /\ LowerShadow(c) < Body(c)

\* cfg['patterns']['engulfing_min_ratio'] in tenths (1.3 -> 13).
EngulfingMinRatio10 == 13

PatternMinLen == 50

\* pattern.get_signal.  Returns <<signal, conditions_info>>.
pattern_get_signal(d, sym, c, historical_index) ==
    LET current_df == IF historical_index # None
                      THEN Head_(d, historical_index[1] + 1)
                      ELSE d
    IN  IF Len(current_df) < PatternMinLen
        THEN <<NoSignal, EmptyDict>>
        ELSE LET tt == rolling_triple_touch(current_df, sym, c.min_touches,
                                            c.touch_window_pips).value
                 eng == engulfing(current_df, EngulfingMinRatio10)
                 bull_hammer == loose_hammer(current_df)
                 bear_star == loose_shooting_star(current_df)
                 rsi_val == rsi(current_df, DefaultRsiPeriod)
                 last == Iloc(current_df, -1)
                 direction_bull == last.close > last.open
                 direction_bear == last.close < last.open
                 conditions_info ==
                     [touch_h |-> tt[1], touch_l |-> tt[2],
                      bull_eng |-> eng[1], bear_eng |-> eng[2],
                      bull_hammer |-> bull_hammer, bear_star |-> bear_star,
                      rsi |-> rsi_val,
                      direction_bull |-> direction_bull,
                      direction_bear |-> direction_bear]
             IN  IF tt[2] /\ (eng[1] \/ bull_hammer)
                    /\ RsiLess(rsi_val, c.rsi_oversold) /\ direction_bull
                 THEN <<"CALL", conditions_info>>
                 ELSE IF tt[1] /\ (eng[2] \/ bear_star)
                         /\ RsiGreater(rsi_val, c.rsi_overbought) /\ direction_bear
                 THEN <<"PUT", conditions_info>>
                 ELSE <<NoSignal, conditions_info>>

(***************************************************************************)
(* scanner.py / test1.py : the polling loops.                              *)
(***************************************************************************)
ScannerMinLen == 30

\* Python's truth value of what get_signal returned, a tuple: a tuple is
\* false only when it is empty.
Truthy(returned) == Len(returned) > 0

\* The alert sent and logged for sym: the message and the csv row carry
\* the value bound to sig.
AlertFor(sym, sig) == [symbol |-> sym, signal |-> sig[1]]

\* The body of scanner.main's for loop for one symbol: the alerts it sends.
\* hit_rate_ok is the outcome of comparing backtest_hit_rate with
\* min_win_rate.
scanner_step(d, sym, c, hit_rate_ok) ==
    IF Len(d) < ScannerMinLen
    THEN <<>>
    ELSE LET sig == get_signal(d, sym, c, None)
         IN  IF Truthy(sig) /\ hit_rate_ok THEN <<AlertFor(sym, sig)>> ELSE <<>>

\* The body of test1.main's for loop for one symbol.
test1_step(d, sym, c) ==
    IF Len(d) < ScannerMinLen
    THEN <<>>
    ELSE LET sig == pattern_get_signal(d, sym, c, None)
         IN  IF Truthy(sig) THEN <<AlertFor(sym, sig)>> ELSE <<>>

(***************************************************************************)
(* setup2/pattern_file2.py : the richer rule set.  Its triple_touch and    *)
(* engulfing are those of pattern.py, line for line.                       *)
(***************************************************************************)
RaisedValueError == [raised |-> TRUE, value |-> "ValueError"]

is_pin_bar(df, bullish) ==
    IF Len(df) < 1
    THEN FALSE
    ELSE LET c == Iloc(df, -1) IN
         IF bullish
         THEN LowerShadow(c) > 2 * Body(c) /\ UpperShadow(c) < Body(c) /\ c.close > c.open
         ELSE UpperShadow(c) > 2 * Body(c) /\ LowerShadow(c) < Body(c) /\ c.close < c.open

is_doji(df, symbol) ==
    IF Len(df) < 1
    THEN FALSE
    ELSE Body(Iloc(df, -1)) < pip_size(symbol) * 10

\* Mutant: the soft default of the other pipelines' rsi.
rich_rsi_soft_default(df, period) ==
    IF Len(df) < period
    THEN Returned(Num(50))
    ELSE Returned(rsi(df, period))

\* The pipeline's rsi: no default, an error below period candles.
rich_rsi(df, period) ==
    IF Len(df) < period
    THEN RaisedValueError
    ELSE Returned(rsi(df, period))

\* The bands over the last period closes, kept exact: mean = sum/n and the
\* sample variance (pandas .std(), ddof = 1) is (n*sumsq - sum^2)/(n*(n-1));
\* upper/lower = mean +/- std_dev * sqrt(variance).
bollinger_bands(df, period, std_dev) ==
    IF Len(df) < period
    THEN RaisedValueError
    ELSE LET w == Tail_(df, period)
             closes == [k \in 1..Len(w) |-> w[k].close]
         IN  Returned([n |-> period,
                       sum |-> SumSeq(closes),
                       sumsq |-> SumSeq([k \in 1..Len(closes) |-> closes[k] * closes[k]]),
                       std_dev |-> std_dev])

\* close < lower_bb and close > upper_bb (False when the deviation is NaN, n < 2).
BelowLowerBand(close, bb) ==
    /\ bb.n >= 2
    /\ bb.sum - bb.n * close > 0
    /\ (bb.sum - bb.n * close) * (bb.sum - bb.n * close) * (bb.n - 1)
          > bb.std_dev * bb.std_dev * bb.n * (bb.n * bb.sumsq - bb.sum * bb.sum)

AboveUpperBand(close, bb) ==
    /\ bb.n >= 2
    /\ bb.n * close - bb.sum > 0
    /\ (bb.n * close - bb.sum) * (bb.n * close - bb.sum) * (bb.n - 1)
          > bb.std_dev * bb.std_dev * bb.n * (bb.n * bb.sumsq - bb.sum * bb.sum)

RichMinLen == 50

\* Lines 119-123 and 125-129.
\* Mutant: the CALL condition without the direction requirement.
RichCallOk_no_direction(ci, close, c) ==
    /\ ci.touch_l
    /\ (ci.bull_eng \/ ci.bull_pin \/ ci.bull_doji)
    /\ RsiLess(ci.rsi, c.ti_rsi_oversold)
    /\ BelowLowerBand(close, ci.bands)

RichCallOk(ci, close, c) ==
    /\ ci.touch_l
    /\ (ci.bull_eng \/ ci.bull_pin \/ ci.bull_doji)
    /\ RsiLess(ci.rsi, c.ti_rsi_oversold)
    /\ ci.direction_bull
    /\ BelowLowerBand(close, ci.bands)

RichPutOk(ci, close, c) ==
    /\ ci.touch_h
    /\ (ci.bear_eng \/ ci.bear_pin \/ ci.bear_doji)
    /\ RsiGreater(ci.rsi, c.ti_rsi_overbought)
    /\ ci.direction_bear
    /\ AboveUpperBand(close, ci.bands)

\* Lines 79-135 once both indicators have been computed; bands stands for
\* upper_bb, mid_bb and lower_bb.
RichDecision(current_df, sym, c, rsi_val, bands) ==
    LET tt == rolling_triple_touch(current_df, sym, c.min_touches, c.touch_window_pips).value
        eng == engulfing(current_df, c.engulfing_min_ratio10)
        last == Iloc(current_df, -1)
        conditions_info ==
            [touch_h |-> tt[1], touch_l |-> tt[2],
             bull_eng |-> eng[1], bear_eng |-> eng[2],
             bull_pin |-> is_pin_bar(current_df, TRUE),
             bear_pin |-> is_pin_bar(current_df, FALSE),
             bull_doji |-> is_doji(current_df, sym),
             bear_doji |-> is_doji(current_df, sym),
             rsi |-> rsi_val,
             bands |-> bands,
             direction_bull |-> last.close > last.open,
             direction_bear |-> last.close < last.open]
    IN  IF RichCallOk(conditions_info, last.close, c)
        THEN <<"CALL", conditions_info>>
        ELSE IF RichPutOk(conditions_info, last.close, c)
        THEN <<"PUT", conditions_info>>
        ELSE <<NoSignal, conditions_info>>

\* setup2 get_signal.  Returns [raised, value], value = <<signal, conditions_info>>.
rich_get_signal(d, sym, c, historical_index) ==
    LET current_df == IF historical_index # None
                      THEN Head_(d, historical_index[1] + 1)
                      ELSE d
        r == rich_rsi(current_df, c.ti_rsi_period)
        b == bollinger_bands(current_df, c.bb_period, c.bb_std_dev)
    IN  IF Len(current_df) < RichMinLen
        THEN Returned(<<NoSignal, EmptyDict>>)
        ELSE IF r.raised
        THEN r
        ELSE IF b.raised
        THEN b
        ELSE Returned(RichDecision(current_df, sym, c, r.value, b.value))

(***************************************************************************)
(* backtest.py / test_script.py / custom_trading_strategy.py :             *)
(* check_setup_result                                                      *)
(***************************************************************************)
EntryOffset == 1

ExpiryOffset15 == 4

ExpiryOffset10 == 2

\* Mutant: one more future candle demanded than the expiry needs.
check_setup_result_early_undetermined(d, signal_index, signal) ==
    IF signal_index + ExpiryOffset15 + 1 >= Len(d)
    THEN "UNDETERMINED"
    ELSE LET entry_price == Iloc(d, signal_index + EntryOffset).open
             expiry_price == Iloc(d, signal_index + ExpiryOffset15).open
         IN  IF signal = "CALL"
             THEN (IF expiry_price > entry_price THEN "WIN" ELSE "LOSS")
             ELSE IF signal = "PUT"
             THEN (IF expiry_price < entry_price THEN "WIN" ELSE "LOSS")
             ELSE "UNDETERMINED"

\* Mutant: an unchanged price counted as a win.
check_setup_result_draw_wins(d, signal_index, signal) ==
    IF signal_index + ExpiryOffset15 >= Len(d)
    THEN "UNDETERMINED"
    ELSE LET entry_price == Iloc(d, signal_index + EntryOffset).open
             expiry_price == Iloc(d, signal_index + ExpiryOffset15).open
         IN  IF signal = "CALL"
             THEN (IF expiry_price >= entry_price THEN "WIN" ELSE "LOSS")
             ELSE IF signal = "PUT"
             THEN (IF expiry_price <= entry_price THEN "WIN" ELSE "LOSS")
             ELSE "UNDETERMINED"

\* backtest.check_setup_result (15-minute pipeline).
check_setup_result(d, signal_index, signal) ==
    IF signal_index + ExpiryOffset15 >= Len(d)
    THEN "UNDETERMINED"
    ELSE LET entry_price == Iloc(d, signal_index + EntryOffset).open
             expiry_price == Iloc(d, signal_index + ExpiryOffset15).open
         IN  IF signal = "CALL"
             THEN (IF expiry_price > entry_price THEN "WIN" ELSE "LOSS")
             ELSE IF signal = "PUT"
             THEN (IF expiry_price < entry_price THEN "WIN" ELSE "LOSS")
             ELSE "UNDETERMINED"

\* test_script.check_setup_result (10-minute pipeline).
check_setup_result_10(d, signal_index, signal) ==
    IF signal_index + ExpiryOffset10 >= Len(d)
    THEN "UNDETERMINED"
    ELSE LET entry_price == Iloc(d, signal_index + EntryOffset).open
             expiry_price == Iloc(d, signal_index + ExpiryOffset10).open
         IN  IF signal = "CALL"
             THEN (IF expiry_price > entry_price THEN "WIN" ELSE "LOSS")
             ELSE IF signal = "PUT"
             THEN (IF expiry_price < entry_price THEN "WIN" ELSE "LOSS")
             ELSE "UNDETERMINED"

\* custom_trading_strategy.check_setup_result.
custom_check_setup_result(d, idx, signal) ==
    IF idx + ExpiryOffset15 >= Len(d)
    THEN "UNDETERMINED"
    ELSE LET entry == Iloc(d, idx + EntryOffset).open
             expiry == Iloc(d, idx + ExpiryOffset15).open
         IN  IF (signal = "CALL" /\ expiry > entry) \/ (signal = "PUT" /\ expiry < entry)
             THEN "WIN"
             ELSE "LOSS"

(***************************************************************************)
(* backtest.py : analyze_setups                                            *)
(***************************************************************************)
ScanStart == 51

\* Building the record at index i raises IndexError: df.iloc[i + 1] or
\* df.iloc[i + 4] (lines 59-60) is out of range.
SetupInfoRaises(d, i) ==
    ~IlocOk(d, i + EntryOffset) \/ ~IlocOk(d, i + ExpiryOffset15)

\* The record appended at index i for sig = <<signal, conditions>> (lines 52-62).
SetupInfo(d, sym, i, sig) ==
    [timestamp |-> Iloc(d, i).timestamp,
     symbol |-> sym,
     signal |-> sig[1],
     result |-> check_setup_result(d, i, sig[1]),
     entry_price |-> Iloc(d, i + EntryOffset).open,
     expiry_price |-> Iloc(d, i + ExpiryOffset15).open,
     conditions |-> sig[2]]

(***************************************************************************)
(* backtest.py : calculate_stats, custom_trading_strategy.py : calc_stats  *)
(***************************************************************************)
CountResult(setups, r) == Cardinality({k \in 1..Len(setups) : setups[k].result = r})

\* wins / total_evaluated * 100 as the exact fraction num/den; 0 is 0/1.
WinRate(wins, total_evaluated) ==
    IF total_evaluated > 0
    THEN [num |-> wins * 100, den |-> total_evaluated]
    ELSE [num |-> 0, den |-> 1]

\* Mutant: the undetermined records left in the denominator.
calculate_stats_all_in_denominator(setups) ==
    IF Len(setups) = 0
    THEN [total_setups |-> 0, win_rate |-> [num |-> 0, den |-> 1],
          wins |-> 0, losses |-> 0, undetermined |-> 0]
    ELSE LET wins == CountResult(setups, "WIN")
             losses == CountResult(setups, "LOSS")
             undetermined == CountResult(setups, "UNDETERMINED")
         IN  [total_setups |-> Len(setups),
              win_rate |-> WinRate(wins, Len(setups)),
              wins |-> wins, losses |-> losses, undetermined |-> undetermined]

calculate_stats(setups) ==
    IF Len(setups) = 0
    THEN [total_setups |-> 0, win_rate |-> [num |-> 0, den |-> 1],
          wins |-> 0, losses |-> 0, undetermined |-> 0]
    ELSE LET wins == CountResult(setups, "WIN")
             losses == CountResult(setups, "LOSS")
             undetermined == CountResult(setups, "UNDETERMINED")
             total_evaluated == wins + losses
         IN  [total_setups |-> Len(setups),
              win_rate |-> WinRate(wins, total_evaluated),
              wins |-> wins, losses |-> losses, undetermined |-> undetermined]

calc_stats(setups) ==
    LET wins == CountResult(setups, "WIN")
        losses == CountResult(setups, "LOSS")
        total == wins + losses
    IN  [total |-> Len(setups), win_rate |-> WinRate(wins, total),
         wins |-> wins, losses |-> losses]

(***************************************************************************)
(* The market feed: the candle series the program is given.                *)
(*                                                                         *)
(* The first BaseLen candles follow a sawtooth: five candles up, fifteen   *)
(* down to a trough whose low alternates between two depths ("fall"), or   *)
(* its mirror image ("rise").  After that the feed is free to deliver any  *)
(* of a few candle shapes, each opening at the previous close.             *)
(***************************************************************************)
BaseLen == 99

MaxLen == 102

\* Close of the falling sawtooth at phase p (0..19); phase 19 is the trough.
WaveClose(p) ==
    IF p <= 4 THEN 1008 + 8 * p
    ELSE IF p <= 14 THEN 1040 - 3 * (p - 4)
    ELSE 1010 - 2 * (p - 14)

FallCandle(j) ==
    LET p == j % 20
        o == IF p = 0 THEN 1000 ELSE WaveClose(p - 1)
        c == WaveClose(p)
        deep == ((j \div 20) % 2) = 1
    IN  [timestamp |-> j, open |-> o, close |-> c,
         high |-> Max2(o, c) + 1,
         low |-> IF p = 19
                 THEN (IF deep THEN 994 ELSE 997)
                 ELSE Min2(o, c)]

Mirror(c) ==
    [timestamp |-> c.timestamp,
     open |-> 2000 - c.open, close |-> 2000 - c.close,
     high |-> 2000 - c.low, low |-> 2000 - c.high]

BaseCandle(w, j) == IF w = "fall" THEN FallCandle(j) ELSE Mirror(FallCandle(j))

\* Candle shapes delivered after the base, opening at the previous close pc.
Shape(kind, pc, j) ==
    CASE kind = "hammer" ->
           [timestamp |-> j, open |-> pc, close |-> pc - 1, high |-> pc, low |-> pc - 6]
      [] kind = "star" ->
           [timestamp |-> j, open |-> pc, close |-> pc + 1, high |-> pc + 6, low |-> pc]
      [] kind = "bull" ->
           [timestamp |-> j, open |-> pc, close |-> pc + 2, high |-> pc + 3, low |-> pc - 1]
      [] OTHER ->
           [timestamp |-> j, open |-> pc, close |-> pc, high |-> pc + 1, low |-> pc - 1]

ShapeKinds == {"hammer", "star", "bull", "doji"}

Symbols == {"EURUSD", "USDJPY"}

\* cfg['filters'] of config.yaml.
CfgWide == [min_touches |-> 3, touch_window_pips |-> 15, rsi_oversold |-> 30, rsi_overbought |-> 70]

CfgTight == [min_touches |-> 6, touch_window_pips |-> 2, rsi_oversold |-> 30, rsi_overbought |-> 70]

Configs == {CfgWide, CfgTight}

\* The runs explored: <<wave, symbol, cfg>>.
Scenarios ==
    { <<"fall", "EURUSD", CfgTight>>, <<"fall", "EURUSD", CfgWide>>,
      <<"rise", "EURUSD", CfgTight>>, <<"rise", "USDJPY", CfgWide>> }

\* The historical_index arguments tried on a series of length n.
HistChoices(n) == {None} \cup {Some(i) : i \in {-1, 0, 1, n - 2, n - 1, n}}

(***************************************************************************)
(* backtest.py : the live loop's sleep.  The current UTC time enters as    *)
(* its minute and second; microseconds are taken as 0.                     *)
(***************************************************************************)
Minutes == 0..59

Seconds == 0..59

MinSleep == 5

\* current.replace(minute=m, ...) raises ValueError unless m is in 0..59.
get_sleep_seconds(minute, second) ==
    LET base == ((minute \div 5) * 5) + 4
        next_check_minute == IF base <= minute THEN base + 5 ELSE base
    IN  IF next_check_minute \notin Minutes
        THEN RaisedValueError
        ELSE Returned(Max2(MinSleep, (next_check_minute - minute) * 60 - second))

(***************************************************************************)
(* custom_trading_strategy.py : the live loop's check window and sleep.    *)
(* Times are seconds since the start of an hour, microseconds 0.           *)
(***************************************************************************)
\* should_check at t seconds: minute % 5 == 4 and second <= 30.
should_check(t) == ((t \div 60) % 60) % 5 = 4 /\ t % 60 <= 30

\* (now + timedelta(minutes=5)).replace(second=0), moved to minute
\* (minute // 5) * 5 + 4 of its hour unless its minute % 5 is 4 already.
sleep_until_next(minute, second) ==
    LET current == minute * 60 + second
        hour_start == ((minute + 5) \div 60) * 3600
        nxt_minute == (minute + 5) % 60
        nxt == IF nxt_minute % 5 # 4
               THEN hour_start + ((nxt_minute \div 5) * 5 + 4) * 60
               ELSE hour_start + nxt_minute * 60
    IN  Max2(5, nxt - current)

(***************************************************************************)
(* alert_manager.py : AlertManager.  Times are whole minutes of the wall   *)
(* clock.  A cooldown key is the pair (symbol, setup_name); the code joins *)
(* the two with "_", which is one-to-one for the names used here.          *)
(***************************************************************************)
cooldown_minutes == 5

max_history_size == 1000

\* Wall-clock minutes the model lets pass.
MaxTime == 5

\* Recorded alerts, and Telegram messages per key, after which the model
\* starts no further call.
MaxAlerts == 2

\* Concurrent send_setup_alert calls on one manager.
Tasks == {1, 2}

\* "" stands for a missing or empty entry of the setup_result dictionary.
AlertSymbols == {"", "EURUSD", "GBPUSD"}

AlertSetupNames == {"", "setup1"}

AlertKeys == (AlertSymbols \ {""}) \X (AlertSetupNames \ {""})

cooldown_key(req) == <<req.symbol, req.setup_name>>

\* True when an alert may be sent for the key at current_time.
check_cooldown(tracker, key, current_time) ==
    IF tracker[key] # None /\ current_time - tracker[key][1] < cooldown_minutes
    THEN FALSE
    ELSE TRUE

update_cooldown(tracker, key, current_time) ==
    [tracker EXCEPT ![key] = Some(current_time)]

LastN(s, n) == IF Len(s) > n THEN SubSeq(s, Len(s) - n + 1, Len(s)) ELSE s

add_to_history(history, req, current_time) ==
    LastN(Append(history, [timestamp |-> current_time, result |-> req]),
          max_history_size)

NoRequest == [symbol |-> "", setup_name |-> ""]

\* Python's s[start:] for any integer start.
SliceFrom(s, start) ==
    LET first == IF start < 0 THEN Max2(Len(s) + start, 0) ELSE Min2(start, Len(s))
    IN  SubSeq(s, first + 1, Len(s))

\* alert_history[-count:] if alert_history else []
get_recent_alerts(history, count) ==
    IF history = <<>> THEN <<>> ELSE SliceFrom(history, -count)

\* A call slot with no call running in it: the request of the last call in
\* the slot, whether its file log succeeded and what it returned.
TaskReturned(req, log_success, r) ==
    [pc |-> "idle", req |-> req, log_success |-> log_success, returned |-> r]

TaskIdle == TaskReturned(NoRequest, FALSE, None)

VARIABLES df, wave, symbol, cfg, out, setups, pc, scan_i,
          telegram_bot, cooldown_tracker, alert_history, now, tasks, sent,
          running, clock, last_alert

\* The state of one AlertManager, the clock and the calls in flight on it.
alertVars == <<telegram_bot, cooldown_tracker, alert_history, now, tasks, sent>>

\* A live loop: which program runs it ("none": no live loop), its UTC time
\* in seconds since a midnight, and its last alert time for the symbol.
liveVars == <<running, clock, last_alert>>

vars == <<df, wave, symbol, cfg, out, setups, pc, scan_i, alertVars, liveVars>>

\* The caller holds no result.
Idle == [op |-> "idle", arg |-> None, res |-> <<>>]

\* AlertManager.__init__: no Telegram bot, empty cooldown tracker and
\* history; no call in flight, nothing delivered, the clock at its origin.
InitAlerts ==
    /\ telegram_bot = FALSE
    /\ cooldown_tracker = [k \in AlertKeys |-> None]
    /\ alert_history = <<>>
    /\ now = 0
    /\ tasks = [t \in Tasks |-> TaskIdle]
    /\ sent = [k \in AlertKeys |-> <<>>]
    /\ running = "none"
    /\ clock = 0
    /\ last_alert = None

Init ==
    /\ df = <<>>
    /\ \E sc \in Scenarios : wave = sc[1] /\ symbol = sc[2] /\ cfg = sc[3]
    /\ out = Idle
    /\ setups = <<>>
    /\ pc = "idle"
    /\ scan_i = ScanStart
    /\ InitAlerts

\* The feed delivers the next candle of the base wave.
FeedBase ==
    /\ out = Idle /\ pc = "idle"
    /\ Len(df) < BaseLen
    /\ df' = Append(df, BaseCandle(wave, Len(df)))
    /\ UNCHANGED <<wave, symbol, cfg, out, setups, pc, scan_i, alertVars, liveVars>>

\* The feed delivers a free candle.
FeedFree ==
    /\ out = Idle /\ pc = "idle"
    /\ Len(df) >= BaseLen
    /\ Len(df) < MaxLen
    /\ \E kind \in ShapeKinds :
          df' = Append(df, Shape(kind, df[Len(df)].close, Len(df)))
    /\ UNCHANGED <<wave, symbol, cfg, out, setups, pc, scan_i, alertVars, liveVars>>

\* The single-threaded caller has used the result and is ready for the next call.
Consume ==
    /\ out # Idle
    /\ out' = Idle
    /\ UNCHANGED <<df, wave, symbol, cfg, setups, pc, scan_i, alertVars, liveVars>>

(***************************************************************************)
(* Spec: the signal engine called on the series                            *)
(***************************************************************************)
CallGetSignal ==
    /\ out = Idle
    /\ \E hi \in HistChoices(Len(df)) :
          out' = [op |-> "get_signal", arg |-> hi, res |-> get_signal(df, symbol, cfg, hi)]
    /\ UNCHANGED <<df, wave, symbol, cfg, setups, pc, scan_i, alertVars, liveVars>>

CallDetectSetupOnly ==
    /\ out = Idle
    /\ \E hi \in HistChoices(Len(df)) :
          out' = [op |-> "detect_setup_only", arg |-> hi,
                  res |-> detect_setup_only(df, symbol, cfg, hi)]
    /\ UNCHANGED <<df, wave, symbol, cfg, setups, pc, scan_i, alertVars, liveVars>>

\* The caller asks for the level behind the conditions get_signal returned
\* at a valid index.
CallGetLevelPrice ==
    /\ out = Idle
    /\ \E hi \in HistChoices(Len(df)) :
          /\ hi # None
          /\ 1 <= hi[1] /\ hi[1] < Len(df)
          /\ out' = [op |-> "get_support_resistance_price", arg |-> hi,
                     res |-> get_support_resistance_price(
                                 df, symbol, cfg,
                                 get_signal(df, symbol, cfg, hi)[2], hi)]
    /\ UNCHANGED <<df, wave, symbol, cfg, setups, pc, scan_i, alertVars, liveVars>>

Next ==
    \/ FeedBase \/ FeedFree \/ Consume
    \/ CallGetSignal \/ CallDetectSetupOnly \/ CallGetLevelPrice

Spec == Init /\ [][Next]_vars

(***************************************************************************)
(* SpecDetectors: the detectors and indicators called on the series        *)
(***************************************************************************)
CallFindLevels ==
    /\ out = Idle
    /\ out' = [op |-> "find_support_resistance_levels", arg |-> None,
               res |-> find_support_resistance_levels(df, symbol, cfg.touch_window_pips,
                                                      DefaultLookback)]
    /\ UNCHANGED <<df, wave, symbol, cfg, setups, pc, scan_i, alertVars, liveVars>>

\* The touches arguments tried: the configured min_touches, and 0.
TouchChoices == {0, cfg.min_touches}

CallTripleTouch ==
    /\ out = Idle
    /\ \E touches \in TouchChoices :
          out' = [op |-> "triple_touch", arg |-> Some(touches),
                  res |-> triple_touch(df, symbol, touches, cfg.touch_window_pips,
                                       DefaultLookback)]
    /\ UNCHANGED <<df, wave, symbol, cfg, setups, pc, scan_i, alertVars, liveVars>>

CallRollingTripleTouch ==
    /\ out = Idle
    /\ out' = [op |-> "rolling_triple_touch", arg |-> None,
               res |-> rolling_triple_touch(df, symbol, cfg.min_touches,
                                            cfg.touch_window_pips)]
    /\ UNCHANGED <<df, wave, symbol, cfg, setups, pc, scan_i, alertVars, liveVars>>

CallHammer ==
    /\ out = Idle
    /\ out' = [op |-> "hammer", arg |-> None, res |-> hammer(df)]
    /\ UNCHANGED <<df, wave, symbol, cfg, setups, pc, scan_i, alertVars, liveVars>>

CallShootingStar ==
    /\ out = Idle
    /\ out' = [op |-> "shooting_star", arg |-> None, res |-> shooting_star(df)]
    /\ UNCHANGED <<df, wave, symbol, cfg, setups, pc, scan_i, alertVars, liveVars>>

CallEngulfing ==
    /\ out = Idle
    /\ out' = [op |-> "engulfing", arg |-> None, res |-> engulfing(df, 13)]
    /\ UNCHANGED <<df, wave, symbol, cfg, setups, pc, scan_i, alertVars, liveVars>>

CallRsi ==
    /\ out = Idle
    /\ out' = [op |-> "rsi", arg |-> None, res |-> rsi(df, DefaultRsiPeriod)]
    /\ UNCHANGED <<df, wave, symbol, cfg, setups, pc, scan_i, alertVars, liveVars>>

NextDetectors ==
    \/ FeedBase \/ FeedFree \/ Consume
    \/ CallFindLevels \/ CallTripleTouch \/ CallRollingTripleTouch
    \/ CallHammer \/ CallShootingStar \/ CallEngulfing \/ CallRsi

SpecDetectors == Init /\ [][NextDetectors]_vars

(***************************************************************************)
(* SpecBacktest: backtest.py --analyze-setups on the series                *)
(***************************************************************************)
MinBacktestLen == 58

\* backtest.py lines 181-186 and 41-47: the one-shot analysis skips a series
\* shorter than 58 candles, else analyze_setups starts its scan at index 51.
\* (Line 44, df['timestamp'].iloc[0], raises on an empty series.)
StartAnalyze ==
    /\ pc = "idle" /\ out = Idle
    /\ Len(df) >= MinBacktestLen
    /\ pc' = IF Len(df) = 0 THEN "failed" ELSE "scan"
    /\ scan_i' = ScanStart
    /\ setups' = <<>>
    /\ UNCHANGED <<df, wave, symbol, cfg, out, alertVars, liveVars>>

\* One iteration of for i in range(51, len(df)), lines 47-87.
ScanStep ==
    /\ pc = "scan"
    /\ scan_i < Len(df)
    /\ LET sig == get_signal(df, symbol, cfg, Some(scan_i))
       IN  IF sig[1] # NoSignal
           THEN IF SetupInfoRaises(df, scan_i)
                THEN pc' = "failed" /\ UNCHANGED <<setups, scan_i>>
                ELSE /\ setups' = Append(setups, SetupInfo(df, symbol, scan_i, sig))
                     /\ scan_i' = scan_i + 1
                     /\ pc' = pc
           ELSE scan_i' = scan_i + 1 /\ UNCHANGED <<setups, pc>>
    /\ UNCHANGED <<df, wave, symbol, cfg, out, alertVars, liveVars>>

\* The loop is exhausted: return setups_found (lines 89-97).
ScanDone ==
    /\ pc = "scan"
    /\ scan_i >= Len(df)
    /\ pc' = "done"
    /\ UNCHANGED <<df, wave, symbol, cfg, out, setups, scan_i, alertVars, liveVars>>

\* The run is over (its report sent, or the process dead of the IndexError).
EndAnalyze ==
    /\ pc \in {"done", "failed"}
    /\ pc' = "idle"
    /\ scan_i' = ScanStart
    /\ setups' = <<>>
    /\ UNCHANGED <<df, wave, symbol, cfg, out, alertVars, liveVars>>

NextBacktest == FeedBase \/ FeedFree \/ StartAnalyze \/ ScanStep \/ ScanDone \/ EndAnalyze

SpecBacktest == Init /\ [][NextBacktest]_vars

(***************************************************************************)
(* SpecEval: the backtest evaluator on short series of open prices         *)
(***************************************************************************)
MaxEvalLen == 7

EvalOpens == {1000, 1001}

Flat(o, j) == [timestamp |-> j, open |-> o, high |-> o, low |-> o, close |-> o]

InitEval ==
    /\ df = <<>>
    /\ wave = "fall"
    /\ symbol = "EURUSD"
    /\ cfg = CfgWide
    /\ out = Idle
    /\ setups = <<>>
    /\ pc = "idle"
    /\ scan_i = ScanStart
    /\ InitAlerts

FeedOpen ==
    /\ out = Idle
    /\ Len(df) < MaxEvalLen
    /\ \E o \in EvalOpens : df' = Append(df, Flat(o, Len(df)))
    /\ UNCHANGED <<wave, symbol, cfg, out, setups, pc, scan_i, alertVars, liveVars>>

CallCheckSetupResult ==
    /\ out = Idle
    /\ \E si \in 0..Len(df), sig \in {"CALL", "PUT"} :
          out' = [op |-> "check_setup_result", arg |-> <<si, sig>>,
                  res |-> check_setup_result(df, si, sig)]
    /\ UNCHANGED <<df, wave, symbol, cfg, setups, pc, scan_i, alertVars, liveVars>>

CallCheckSetupResult10 ==
    /\ out = Idle
    /\ \E si \in 0..Len(df), sig \in {"CALL", "PUT"} :
          out' = [op |-> "check_setup_result_10", arg |-> <<si, sig>>,
                  res |-> check_setup_result_10(df, si, sig)]
    /\ UNCHANGED <<df, wave, symbol, cfg, setups, pc, scan_i, alertVars, liveVars>>

CallCustomCheckSetupResult ==
    /\ out = Idle
    /\ \E si \in 0..Len(df), sig \in {"CALL", "PUT"} :
          out' = [op |-> "custom_check_setup_result", arg |-> <<si, sig>>,
                  res |-> custom_check_setup_result(df, si, sig)]
    /\ UNCHANGED <<df, wave, symbol, cfg, setups, pc, scan_i, alertVars, liveVars>>

NextEval ==
    \/ FeedOpen \/ Consume
    \/ CallCheckSetupResult \/ CallCheckSetupResult10 \/ CallCustomCheckSetupResult

SpecEval == InitEval /\ [][NextEval]_vars

(***************************************************************************)
(* SpecStats: the statistics aggregator on a list of setup records         *)
(***************************************************************************)
MaxSetups == 6

Outcomes == {"WIN", "LOSS", "UNDETERMINED"}

\* A backtest run has produced one more record.
AddRecord ==
    /\ out = Idle
    /\ Len(setups) < MaxSetups
    /\ \E r \in Outcomes, sig \in {"CALL"} :
          setups' = Append(setups, [signal |-> sig, result |-> r])
    /\ UNCHANGED <<df, wave, symbol, cfg, out, pc, scan_i, alertVars, liveVars>>

CallCalculateStats ==
    /\ out = Idle
    /\ out' = [op |-> "calculate_stats", arg |-> None, res |-> calculate_stats(setups)]
    /\ UNCHANGED <<df, wave, symbol, cfg, setups, pc, scan_i, alertVars, liveVars>>

CallCalcStats ==
    /\ out = Idle
    /\ out' = [op |-> "calc_stats", arg |-> None, res |-> calc_stats(setups)]
    /\ UNCHANGED <<df, wave, symbol, cfg, setups, pc, scan_i, alertVars, liveVars>>

NextStats == AddRecord \/ CallCalculateStats \/ CallCalcStats \/ Consume

SpecStats == InitEval /\ [][NextStats]_vars

(***************************************************************************)
(* SpecCluster: cluster_levels called on candidate extrema                 *)
(***************************************************************************)
MaxLevels == 4

\* Candidate extrema, in units of 0.0001 (11000 is 1.1000).
LevelPrices == {11000, 11002, 11004, 11008, 11050}

\* Tolerances pip_size(symbol) * window tried.
Tolerances == {3, 5}

RECURSIVE SeqsUpTo(_, _)
SeqsUpTo(S, n) ==
    IF n = 0
    THEN {<<>>}
    ELSE LET shorter == SeqsUpTo(S, n - 1)
         IN  shorter \cup {Append(q, x) : q \in {r \in shorter : Len(r) = n - 1}, x \in S}

CallClusterLevels ==
    /\ out = Idle
    /\ \E levels \in SeqsUpTo(LevelPrices, MaxLevels), pips \in Tolerances :
          out' = [op |-> "cluster_levels", arg |-> <<levels, pips>>,
                  res |-> cluster_levels(levels, pips)]
    /\ UNCHANGED <<df, wave, symbol, cfg, setups, pc, scan_i, alertVars, liveVars>>

NextCluster == CallClusterLevels \/ Consume

SpecCluster == InitEval /\ [][NextCluster]_vars

(***************************************************************************)
(* SpecRich: the richer rule set (setup2) called on the series.            *)
(*                                                                         *)
(* The first RichBaseLen candles move sideways, closing alternately one    *)
(* unit up and one down; after that the feed is free to deliver a large    *)
(* fall, a large rise, or a small candle up or down, each opening at the   *)
(* previous close.                                                         *)
(***************************************************************************)
RichBaseLen == 49

RichMaxLen == 52

SidewaysCandle(j) ==
    [timestamp |-> j, open |-> 500 + (j % 2), close |-> 500 + ((j + 1) % 2),
     high |-> 502, low |-> 499]

RichShape(kind, prev, j) ==
    CASE kind = "drop" ->
           [timestamp |-> j, open |-> prev, close |-> prev - 60, high |-> prev + 1, low |-> prev - 61]
      [] kind = "spike" ->
           [timestamp |-> j, open |-> prev, close |-> prev + 60, high |-> prev + 61, low |-> prev - 1]
      [] kind = "up" ->
           [timestamp |-> j, open |-> prev, close |-> prev + 4, high |-> prev + 5, low |-> prev - 1]
      [] OTHER ->
           [timestamp |-> j, open |-> prev, close |-> prev - 4, high |-> prev + 1, low |-> prev - 5]

RichShapeKinds == {"drop", "spike", "up", "down"}

\* cfg['filters'], cfg['patterns'] and cfg['technical_indicators'] of the
\* setup's configuration; engulfing_min_ratio in tenths.
RichCfg ==
    [min_touches |-> 2, touch_window_pips |-> 15, engulfing_min_ratio10 |-> 13,
     ti_rsi_period |-> 14, ti_rsi_oversold |-> 30, ti_rsi_overbought |-> 70,
     bb_period |-> 20, bb_std_dev |-> 2]

\* Configurations whose indicator period exceeds the 50 candles get_signal asks for.
RichCfgLongRsi == [RichCfg EXCEPT !.ti_rsi_period = 55]

RichCfgLongBands == [RichCfg EXCEPT !.bb_period = 55]

\* Bands three standard deviations wide.
RichCfgWideBands == [RichCfg EXCEPT !.bb_std_dev = 3]

RichConfigs == {RichCfg, RichCfgLongRsi, RichCfgLongBands, RichCfgWideBands}

InitRich ==
    /\ df = <<>>
    /\ wave = "sideways"
    /\ symbol = "EURUSD"
    /\ cfg \in RichConfigs
    /\ out = Idle
    /\ setups = <<>>
    /\ pc = "idle"
    /\ scan_i = ScanStart
    /\ InitAlerts

FeedRichBase ==
    /\ out = Idle
    /\ Len(df) < RichBaseLen
    /\ df' = Append(df, SidewaysCandle(Len(df)))
    /\ UNCHANGED <<wave, symbol, cfg, out, setups, pc, scan_i, alertVars, liveVars>>

FeedRichFree ==
    /\ out = Idle
    /\ Len(df) >= RichBaseLen
    /\ Len(df) < RichMaxLen
    /\ \E kind \in RichShapeKinds :
          df' = Append(df, RichShape(kind, df[Len(df)].close, Len(df)))
    /\ UNCHANGED <<wave, symbol, cfg, out, setups, pc, scan_i, alertVars, liveVars>>

CallRichGetSignal ==
    /\ out = Idle
    /\ \E hi \in {None} \cup {Some(i) : i \in {-1, Len(df) - 2, Len(df) - 1, Len(df)}} :
          out' = [op |-> "rich_get_signal", arg |-> hi,
                  res |-> rich_get_signal(df, symbol, cfg, hi)]
    /\ UNCHANGED <<df, wave, symbol, cfg, setups, pc, scan_i, alertVars, liveVars>>

CallRichRsi ==
    /\ out = Idle
    /\ out' = [op |-> "rich_rsi", arg |-> Some(cfg.ti_rsi_period),
               res |-> rich_rsi(df, cfg.ti_rsi_period)]
    /\ UNCHANGED <<df, wave, symbol, cfg, setups, pc, scan_i, alertVars, liveVars>>

CallBollingerBands ==
    /\ out = Idle
    /\ out' = [op |-> "bollinger_bands", arg |-> Some(cfg.bb_period),
               res |-> bollinger_bands(df, cfg.bb_period, cfg.bb_std_dev)]
    /\ UNCHANGED <<df, wave, symbol, cfg, setups, pc, scan_i, alertVars, liveVars>>

NextRich ==
    \/ FeedRichBase \/ FeedRichFree \/ Consume
    \/ CallRichGetSignal \/ CallRichRsi \/ CallBollingerBands

SpecRich == InitRich /\ [][NextRich]_vars

(***************************************************************************)
(* SpecCandle: the two hammer variants called on a single candle           *)
(***************************************************************************)
MaxSpread == 5

\* Open, high, low and close as delivered by the data source, which the
\* detectors do not validate against each other.
CandlePrices == {1000 + k : k \in 0..MaxSpread}

OneCandle(o, h, l, c) ==
    << [timestamp |-> 0, open |-> o, high |-> h, low |-> l, close |-> c] >>

CallHammerOn ==
    /\ out = Idle
    /\ \E o \in CandlePrices, h \in CandlePrices, l \in CandlePrices, c \in CandlePrices :
          out' = [op |-> "hammer", arg |-> OneCandle(o, h, l, c),
                  res |-> hammer(OneCandle(o, h, l, c))]
    /\ UNCHANGED <<df, wave, symbol, cfg, setups, pc, scan_i, alertVars, liveVars>>

CallLooseHammerOn ==
    /\ out = Idle
    /\ \E o \in CandlePrices, h \in CandlePrices, l \in CandlePrices, c \in CandlePrices :
          out' = [op |-> "loose_hammer", arg |-> OneCandle(o, h, l, c),
                  res |-> loose_hammer(OneCandle(o, h, l, c))]
    /\ UNCHANGED <<df, wave, symbol, cfg, setups, pc, scan_i, alertVars, liveVars>>

NextCandle == CallHammerOn \/ CallLooseHammerOn \/ Consume

SpecCandle == InitEval /\ [][NextCandle]_vars

(***************************************************************************)
(* SpecAlerts: send_setup_alert calls running concurrently on one          *)
(* AlertManager under an asyncio event loop.  A coroutine runs without     *)
(* interruption between two awaits; the only await of send_setup_alert     *)
(* that yields to the loop is telegram_bot.send_message.                   *)
(***************************************************************************)
engineVars == <<df, wave, symbol, cfg, out, setups, pc, scan_i>>

AlertRequests == [symbol : AlertSymbols, setup_name : AlertSetupNames]

\* initialize(config) with a bot token and a chat id configured.
Initialize ==
    /\ ~telegram_bot
    /\ now = 0 /\ \A t \in Tasks : tasks[t] = TaskIdle
    /\ telegram_bot' = TRUE
    /\ UNCHANGED <<engineVars, cooldown_tracker, alert_history, now, tasks, sent, liveVars>>

\* The tail of send_setup_alert, from the result of the Telegram send on.
\* console_ok is false when a print of _send_console_alert raises (stdout
\* closed, or unable to encode the message); the except clause of
\* send_setup_alert then returns False.
CompleteSend(t, req, log_success, telegram_success, console_ok) ==
    LET key == cooldown_key(req) IN
    /\ sent' = IF telegram_success
               THEN [sent EXCEPT ![key] = Append(@, now)]
               ELSE sent
    /\ IF console_ok /\ (telegram_success \/ log_success)
       THEN /\ cooldown_tracker' = update_cooldown(cooldown_tracker, key, now)
            /\ alert_history' = add_to_history(alert_history, req, now)
            /\ tasks' = [tasks EXCEPT ![t] = TaskReturned(req, log_success, Some(TRUE))]
       ELSE /\ UNCHANGED <<cooldown_tracker, alert_history>>
            /\ tasks' = [tasks EXCEPT ![t] = TaskReturned(req, log_success, Some(FALSE))]

\* send_setup_alert from its entry to its first suspension or its return.
StartSend(t) ==
    /\ tasks[t].pc = "idle"
    /\ Len(alert_history) < MaxAlerts
    /\ \A k \in AlertKeys : Len(sent[k]) < MaxAlerts
    /\ \E req \in AlertRequests :
         IF req.symbol = "" \/ req.setup_name = ""
            \/ ~check_cooldown(cooldown_tracker, cooldown_key(req), now)
         THEN /\ tasks' = [tasks EXCEPT ![t] = TaskReturned(req, FALSE, Some(FALSE))]
              /\ UNCHANGED <<cooldown_tracker, alert_history, sent>>
         ELSE \E log_success \in BOOLEAN :
                IF telegram_bot
                THEN /\ tasks' = [tasks EXCEPT ![t] = [pc |-> "awaiting",
                                      req |-> req, log_success |-> log_success,
                                      returned |-> None]]
                     /\ UNCHANGED <<cooldown_tracker, alert_history, sent>>
                ELSE \E console_ok \in BOOLEAN :
                       CompleteSend(t, req, log_success, FALSE, console_ok)
    /\ UNCHANGED <<engineVars, telegram_bot, now, liveVars>>

\* telegram_bot.send_message returns or raises; the call resumes and ends.
FinishSend(t) ==
    /\ tasks[t].pc = "awaiting"
    /\ \E telegram_success \in BOOLEAN, console_ok \in BOOLEAN :
         CompleteSend(t, tasks[t].req, tasks[t].log_success, telegram_success,
                      console_ok)
    /\ UNCHANGED <<engineVars, telegram_bot, now, liveVars>>

\* A minute passes on the wall clock.
Tick ==
    /\ now < MaxTime
    /\ now' = now + 1
    /\ UNCHANGED <<engineVars, telegram_bot, cooldown_tracker, alert_history,
                   tasks, sent, liveVars>>

NextAlerts ==
    \/ Initialize
    \/ \E t \in Tasks : StartSend(t)
    \/ \E t \in Tasks : FinishSend(t)
    \/ Tick

SpecAlerts == InitEval /\ [][NextAlerts]_vars

(***************************************************************************)
(* SpecSleep: the live loops of backtest.main and of                       *)
(* custom_trading_strategy.main compute their sleep at every UTC minute    *)
(* and second.  An exception of get_sleep_seconds leaves the while loop.   *)
(***************************************************************************)
CallGetSleepSeconds ==
    /\ out = Idle
    /\ \E minute \in Minutes, second \in Seconds :
         out' = [op |-> "get_sleep_seconds", arg |-> <<minute, second>>,
                 res |-> get_sleep_seconds(minute, second)]
    /\ UNCHANGED <<df, wave, symbol, cfg, setups, pc, scan_i, alertVars, liveVars>>

\* custom_trading_strategy.main: time.sleep(sleep_until_next()).
CallSleepUntilNext ==
    /\ out = Idle
    /\ \E minute \in Minutes, second \in Seconds :
         out' = [op |-> "sleep_until_next", arg |-> <<minute, second>>,
                 res |-> sleep_until_next(minute, second)]
    /\ UNCHANGED <<df, wave, symbol, cfg, setups, pc, scan_i, alertVars, liveVars>>

NextSleep == CallGetSleepSeconds \/ CallSleepUntilNext \/ Consume

SpecSleep == InitEval /\ [][NextSleep]_vars

(***************************************************************************)
(* SpecEarly: the signal engine on series whose setup candles come before  *)
(* index 100.  The base wave ends at EarlyBaseLen, free candles follow up  *)
(* to EarlyMaxLen, and the feed may then deliver the base wave on to       *)
(* EarlyFullLen candles at once.                                           *)
(***************************************************************************)
EarlyBaseLen == 60

EarlyMaxLen == 62

EarlyFullLen == 101

\* d followed by the base wave up to n candles.
RECURSIVE ExtendBase(_, _, _)
ExtendBase(d, w, n) ==
    IF Len(d) >= n THEN d ELSE ExtendBase(Append(d, BaseCandle(w, Len(d))), w, n)

\* The historical_index arguments tried on a series of length n.
EarlyChoices(n) ==
    {None} \cup {Some(i) : i \in {EarlyBaseLen, EarlyBaseLen + 1, EarlyMaxLen, n - 1}}

FeedEarlyBase ==
    /\ out = Idle
    /\ Len(df) < EarlyBaseLen
    /\ df' = Append(df, BaseCandle(wave, Len(df)))
    /\ UNCHANGED <<wave, symbol, cfg, out, setups, pc, scan_i, alertVars, liveVars>>

FeedEarlyFree ==
    /\ out = Idle
    /\ Len(df) >= EarlyBaseLen
    /\ Len(df) < EarlyMaxLen
    /\ \E kind \in ShapeKinds :
          df' = Append(df, Shape(kind, df[Len(df)].close, Len(df)))
    /\ UNCHANGED <<wave, symbol, cfg, out, setups, pc, scan_i, alertVars, liveVars>>

FeedEarlyRest ==
    /\ out = Idle
    /\ Len(df) >= EarlyBaseLen
    /\ Len(df) <= EarlyMaxLen
    /\ df' = ExtendBase(df, wave, EarlyFullLen)
    /\ UNCHANGED <<wave, symbol, cfg, out, setups, pc, scan_i, alertVars, liveVars>>

CallEarlyGetSignal ==
    /\ out = Idle
    /\ \E hi \in EarlyChoices(Len(df)) :
          out' = [op |-> "get_signal", arg |-> hi, res |-> get_signal(df, symbol, cfg, hi)]
    /\ UNCHANGED <<df, wave, symbol, cfg, setups, pc, scan_i, alertVars, liveVars>>

CallEarlyDetectSetupOnly ==
    /\ out = Idle
    /\ \E hi \in EarlyChoices(Len(df)) :
          out' = [op |-> "detect_setup_only", arg |-> hi,
                  res |-> detect_setup_only(df, symbol, cfg, hi)]
    /\ UNCHANGED <<df, wave, symbol, cfg, setups, pc, scan_i, alertVars, liveVars>>

NextEarly ==
    \/ FeedEarlyBase \/ FeedEarlyFree \/ FeedEarlyRest
    \/ CallEarlyGetSignal \/ CallEarlyDetectSetupOnly \/ Consume

SpecEarly == Init /\ [][NextEarly]_vars

(***************************************************************************)
(* SpecHistory: one successful alert after another on a manager without a  *)
(* Telegram bot, each sent as soon as the cooldown of its key has run out, *)
(* until alert_history has been trimmed; get_recent_alerts in between.     *)
(***************************************************************************)
MaxHistoryAlerts == 1002

HistoryRequest == [symbol |-> "EURUSD", setup_name |-> "setup1"]

RecentCounts == {0, 1, 10, max_history_size, max_history_size + 1}

\* send_setup_alert whose file log and console print succeed.
SendLogged ==
    /\ out = Idle
    /\ ~telegram_bot
    /\ tasks[1].pc = "idle"
    /\ check_cooldown(cooldown_tracker, cooldown_key(HistoryRequest), now)
    /\ CompleteSend(1, HistoryRequest, TRUE, FALSE, TRUE)
    /\ UNCHANGED <<engineVars, telegram_bot, now, liveVars>>

\* The caller waits until the cooldown of the key is over.
WaitCooldown ==
    /\ out = Idle
    /\ ~check_cooldown(cooldown_tracker, cooldown_key(HistoryRequest), now)
    /\ now < MaxHistoryAlerts * cooldown_minutes
    /\ now' = now + cooldown_minutes
    /\ UNCHANGED <<engineVars, telegram_bot, cooldown_tracker, alert_history,
                   tasks, sent, liveVars>>

CallGetRecentAlerts ==
    /\ out = Idle
    /\ \E count \in RecentCounts :
         out' = [op |-> "get_recent_alerts", arg |-> Some(count),
                 res |-> get_recent_alerts(alert_history, count)]
    /\ UNCHANGED <<df, wave, symbol, cfg, setups, pc, scan_i, alertVars, liveVars>>

NextHistory == SendLogged \/ WaitCooldown \/ CallGetRecentAlerts \/ Consume

SpecHistory == InitEval /\ [][NextHistory]_vars

(***************************************************************************)
(* SpecScanner: the polling loops of scanner.main and test1.main on the    *)
(* series of Spec.  A poll happens inside or outside the alert window.     *)
(***************************************************************************)
\* One pass of scanner.main's while loop over the symbol.
ScannerPoll ==
    /\ out = Idle
    /\ \E should_alert \in BOOLEAN, hit_rate_ok \in BOOLEAN :
         out' = [op |-> "scanner.main", arg |-> <<should_alert, hit_rate_ok>>,
                 res |-> IF should_alert
                         THEN scanner_step(df, symbol, cfg, hit_rate_ok)
                         ELSE <<>>]
    /\ UNCHANGED <<df, wave, symbol, cfg, setups, pc, scan_i, alertVars, liveVars>>

\* One pass of test1.main's while loop over the symbol.
Test1Poll ==
    /\ out = Idle
    /\ \E should_alert_5min \in BOOLEAN :
         out' = [op |-> "test1.main", arg |-> <<should_alert_5min>>,
                 res |-> IF should_alert_5min
                         THEN test1_step(df, symbol, cfg)
                         ELSE <<>>]
    /\ UNCHANGED <<df, wave, symbol, cfg, setups, pc, scan_i, alertVars, liveVars>>

NextScanner == FeedBase \/ FeedFree \/ ScannerPoll \/ Test1Poll \/ Consume

SpecScanner == Init /\ [][NextScanner]_vars

(***************************************************************************)
(* The live loops of backtest.py, custom_trading_strategy.py and           *)
(* master_script.py: poll, alert unless a duplicate, sleep.                *)
(*                                                                         *)
(* clock is the UTC time in seconds since a midnight.  One symbol is       *)
(* followed; last_alert is the entry of the loop's dictionary for it       *)
(* (None: no entry).  The work of one iteration takes no time.             *)
(***************************************************************************)
MaxClock == 87000

Programs == {"backtest.main", "custom.main", "master.main"}

\* Times of day at which the program is started: 00:00:30 and 00:04:00.
StartClocks == {30, 240}

LiveSignals == {NoSignal, "CALL"}

\* datetime.min is midnight of 0001-01-01: whole days before time 0.
datetime_min == 0 - 7 * (24 * 60 * 60)

\* (later - earlier).total_seconds()
total_seconds(later, earlier) == later - earlier

\* (later - earlier).seconds, later >= earlier: timedelta normalises to
\* days, 0 <= seconds < 86400 and microseconds; .seconds leaves the days out.
timedelta_seconds(later, earlier) == (later - earlier) % (24 * 60 * 60)

\* backtest.main: last_alert and (current_time - last_alert).total_seconds() < 60
backtest_duplicate(last, current_time) ==
    last # None /\ total_seconds(current_time, last[1]) < 60

\* custom_trading_strategy.main:
\* (now - last_alert.get(sym, datetime.datetime.min)).seconds < 60
custom_duplicate(last, current_time) ==
    timedelta_seconds(current_time,
                      IF last = None THEN datetime_min ELSE last[1]) < 60

\* master_script.main: (now - last_alert.get(sym, datetime.min)).seconds < 60
master_duplicate(last, current_time) ==
    timedelta_seconds(current_time,
                      IF last = None THEN datetime_min ELSE last[1]) < 60

\* The `if signal:` block of a loop: <<checks, last>> where checks records
\* <<signal, dictionary entry seen, outcome>> for a detected signal and last
\* is the dictionary entry afterwards.
SignalBlock(signal, last, current_time, duplicate) ==
    IF signal = NoSignal
    THEN <<<<>>, last>>
    ELSE IF duplicate
         THEN <<<< <<signal, last, "suppressed">> >>, last>>
         ELSE <<<< <<signal, last, "alerted">> >>, Some(current_time)>>

StartProgram ==
    /\ running = "none"
    /\ \E p \in Programs, t \in StartClocks :
         /\ running' = p
         /\ clock' = t
    /\ UNCHANGED <<engineVars, alertVars, last_alert>>

\* One pass of `while True:` in backtest.main; a ValueError of
\* get_sleep_seconds() is not caught and ends the program.
BacktestIteration ==
    /\ running = "backtest.main"
    /\ clock < MaxClock
    /\ \E signal \in (IF should_check(clock) THEN LiveSignals ELSE {NoSignal}) :
         LET block == SignalBlock(signal, last_alert, clock,
                                  backtest_duplicate(last_alert, clock))
             sleep == get_sleep_seconds((clock \div 60) % 60, clock % 60)
         IN  /\ out' = [op |-> "backtest.main", arg |-> <<clock, last_alert>>,
                        res |-> block[1]]
             /\ last_alert' = block[2]
             /\ IF sleep.raised
                THEN running' = "stopped" /\ clock' = clock
                ELSE running' = running /\ clock' = clock + sleep.value
    /\ UNCHANGED <<df, wave, symbol, cfg, setups, pc, scan_i, alertVars>>

\* One pass of `while True:` in custom_trading_strategy.main.
CustomIteration ==
    /\ running = "custom.main"
    /\ clock < MaxClock
    /\ \E signal \in (IF should_check(clock) THEN LiveSignals ELSE {NoSignal}) :
         LET block == SignalBlock(signal, last_alert, clock,
                                  custom_duplicate(last_alert, clock))
         IN  /\ out' = [op |-> "custom.main", arg |-> <<clock, last_alert>>,
                        res |-> block[1]]
             /\ last_alert' = block[2]
             /\ clock' = clock + sleep_until_next((clock \div 60) % 60,
                                                  clock % 60)
    /\ UNCHANGED <<df, wave, symbol, cfg, setups, pc, scan_i, alertVars,
                   running>>

\* One pass of `while True:` in master_script.main: setup1, then setup2.
MasterIteration ==
    /\ running = "master.main"
    /\ clock < MaxClock
    /\ \E signal1 \in LiveSignals, signal2 \in LiveSignals :
         LET block1 == SignalBlock(signal1, last_alert, clock,
                                   master_duplicate(last_alert, clock))
             block2 == SignalBlock(signal2, block1[2], clock,
                                   master_duplicate(block1[2], clock))
         IN  /\ out' = [op |-> "master.main", arg |-> <<clock, last_alert>>,
                        res |-> block1[1] \o block2[1]]
             /\ last_alert' = block2[2]
             /\ clock' = clock + 300
    /\ UNCHANGED <<df, wave, symbol, cfg, setups, pc, scan_i, alertVars,
                   running>>

NextLive ==
    StartProgram \/ BacktestIteration \/ CustomIteration \/ MasterIteration

SpecLive == InitEval /\ [][NextLive]_vars

(***************************************************************************)
(* Properties                                                              *)
(***************************************************************************)
\* The call just made had a valid historical index.
ValidHistCall(op) ==
    /\ out.op = op
    /\ out.arg # None
    /\ 1 <= out.arg[1]
    /\ out.arg[1] < Len(df)

\* C1: look-ahead safety of confirmation mode.  get_signal at a valid index i
\* returns what it returns on the series cut after candle i, and on that cut
\* series followed by any other candle: the candles after i do not matter.
C1_LookAheadSafe ==
    ValidHistCall("get_signal") =>
        LET i == out.arg[1]
            cut == SubSeq(df, 1, i + 1)
        IN  /\ out.res = get_signal(cut, symbol, cfg, Some(i))
            /\ \A kind \in ShapeKinds :
                  out.res = get_signal(Append(cut, Shape(kind, cut[i + 1].close, i + 1)),
                                       symbol, cfg, Some(i))

\* A CALL confirmed at candle i although the next candle of the series is bearish.
C1_Witness ==
    /\ ValidHistCall("get_signal")
    /\ out.res[1] = "CALL"
    /\ out.arg[1] + 2 <= Len(df)
    /\ df[out.arg[1] + 2].close < df[out.arg[1] + 2].open

\* C2: at a valid index B, get_signal returns CALL exactly when touch_low,
\* hammer and rsi < rsi_oversold hold on the slice ending at candle A = B - 1
\* and candle B closes above its open; PUT exactly when touch_high,
\* shooting_star and rsi > rsi_overbought hold there and candle B closes below
\* its open; otherwise no signal.
C2_SignalRule ==
    ValidHistCall("get_signal") =>
        LET B == out.arg[1]
            upToA == SubSeq(df, 1, B)
            candleB == df[B + 1]
            tt == triple_touch(upToA, symbol, cfg.min_touches, cfg.touch_window_pips, 100)
            r == rsi(upToA, 14)
            call == /\ tt[2]
                    /\ hammer(upToA)
                    /\ RsiLess(r, cfg.rsi_oversold)
                    /\ candleB.close > candleB.open
            put == /\ tt[1]
                   /\ shooting_star(upToA)
                   /\ RsiGreater(r, cfg.rsi_overbought)
                   /\ candleB.close < candleB.open
        IN  /\ (out.res[1] = "CALL") <=> call
            /\ (out.res[1] = "PUT") <=> put
            /\ (out.res[1] = NoSignal) <=> (~call /\ ~put)

\* get_signal has returned CALL for the latest candle of a series.
C2_Witness ==
    /\ ValidHistCall("get_signal")
    /\ out.arg[1] = Len(df) - 1
    /\ out.res[1] = "CALL"
    /\ out.res[2].candle_a_hammer

\* The two conjunctions of lines 193 and 198, read off the returned conditions.
CallConjunction(c) ==
    /\ c.candle_a_touch_l
    /\ c.candle_a_hammer
    /\ RsiLess(c.candle_a_rsi, cfg.rsi_oversold)
    /\ c.candle_b_bullish

PutConjunction(c) ==
    /\ c.candle_a_touch_h
    /\ c.candle_a_shooting_star
    /\ RsiGreater(c.candle_a_rsi, cfg.rsi_overbought)
    /\ c.candle_b_bearish

\* C6: the CALL and the PUT conjunction are never both true, and a true PUT
\* conjunction always yields PUT: testing CALL first never hides a PUT.
C6_MutuallyExclusive ==
    ValidHistCall("get_signal") =>
        /\ ~(CallConjunction(out.res[2]) /\ PutConjunction(out.res[2]))
        /\ PutConjunction(out.res[2]) => out.res[1] = "PUT"

\* The PUT conjunction holds and PUT was returned.
C6_Witness ==
    /\ ValidHistCall("get_signal")
    /\ PutConjunction(out.res[2])
    /\ out.res[1] = "PUT"

\* C7: get_signal and detect_setup_only return no signal and an empty
\* condition set for historical_index < 1 or >= len(series), and in live mode
\* for a series of fewer than 2 candles.
C7_InvalidIndexNoSignal ==
    (/\ out.op \in {"get_signal", "detect_setup_only"}
     /\ \/ out.arg = None /\ Len(df) < 2
        \/ out.arg # None /\ (out.arg[1] < 1 \/ out.arg[1] >= Len(df)))
    => out.res = <<NoSignal, EmptyDict>>

\* get_signal called with historical_index = len(series) on a series long
\* and shaped enough for a signal at its last candle.
C7_Witness ==
    /\ out.op = "get_signal"
    /\ out.arg = Some(Len(df))
    /\ out.res = <<NoSignal, EmptyDict>>
    /\ get_signal(df, symbol, cfg, Some(Len(df) - 1))[1] = "CALL"

\* The call just made: check_setup_result variant op at <<signal_index, signal>>.
EvalCall(op) == out.op = op

\* C3: for a CALL or PUT, the result is UNDETERMINED exactly when
\* signal_index + expiry_offset >= len(series) (offset 4 in the 15-minute
\* pipelines, 2 in the 10-minute pipeline), WIN or LOSS otherwise.
C3_UndeterminedBoundary ==
    /\ EvalCall("check_setup_result") =>
          /\ (out.res = "UNDETERMINED") <=> (out.arg[1] + 4 >= Len(df))
          /\ out.res \in {"WIN", "LOSS", "UNDETERMINED"}
    /\ EvalCall("check_setup_result_10") =>
          /\ (out.res = "UNDETERMINED") <=> (out.arg[1] + 2 >= Len(df))
          /\ out.res \in {"WIN", "LOSS", "UNDETERMINED"}
    /\ EvalCall("custom_check_setup_result") =>
          /\ (out.res = "UNDETERMINED") <=> (out.arg[1] + 4 >= Len(df))
          /\ out.res \in {"WIN", "LOSS", "UNDETERMINED"}

\* The expiry candle is the last candle of the series and the outcome is determined.
C3_Witness ==
    /\ EvalCall("check_setup_result")
    /\ out.arg[1] + 4 = Len(df) - 1
    /\ out.res \in {"WIN", "LOSS"}

\* WIN/LOSS expected from the entry and expiry opens.
Classified(sig, entry, expiry) ==
    IF (sig = "CALL" /\ expiry > entry) \/ (sig = "PUT" /\ expiry < entry)
    THEN "WIN"
    ELSE "LOSS"

\* C4: with enough future candles, a CALL wins iff open[i + expiry_offset] is
\* strictly above open[i + entry_offset], a PUT iff strictly below; anything
\* else, equality included, is a LOSS.
C4_WinLoss ==
    /\ (EvalCall("check_setup_result") /\ out.arg[1] + 4 < Len(df)) =>
          out.res = Classified(out.arg[2], df[out.arg[1] + 2].open, df[out.arg[1] + 5].open)
    /\ (EvalCall("check_setup_result_10") /\ out.arg[1] + 2 < Len(df)) =>
          out.res = Classified(out.arg[2], df[out.arg[1] + 2].open, df[out.arg[1] + 3].open)
    /\ (EvalCall("custom_check_setup_result") /\ out.arg[1] + 4 < Len(df)) =>
          out.res = Classified(out.arg[2], df[out.arg[1] + 2].open, df[out.arg[1] + 5].open)

\* A PUT whose expiry open equals its entry open is a LOSS.
C4_Witness ==
    /\ EvalCall("check_setup_result")
    /\ out.arg[2] = "PUT"
    /\ out.arg[1] + 4 < Len(df)
    /\ df[out.arg[1] + 2].open = df[out.arg[1] + 5].open
    /\ out.res = "LOSS"

\* C5 (as claimed): a backtest run never fails, and when it is done it has
\* one record, in ascending index order, for every scanned index at which
\* get_signal returns CALL or PUT, the last candles of the series included.
C5_BacktestCompletes ==
    /\ pc # "failed"
    /\ pc = "done" =>
          LET hit == {i \in 51..(Len(df) - 1) :
                         get_signal(df, symbol, cfg, Some(i))[1] # NoSignal}
          IN  /\ Len(setups) = Cardinality(hit)
              /\ \A k \in 1..Len(setups) : setups[k].timestamp \in hit
              /\ \A k \in 1..(Len(setups) - 1) :
                    setups[k].timestamp < setups[k + 1].timestamp

RECURSIVE CountOf(_, _)
CountOf(records, r) ==
    IF records = <<>>
    THEN 0
    ELSE (IF Head(records).result = r THEN 1 ELSE 0) + CountOf(Tail(records), r)

\* C8: win_rate = wins / (wins + losses) * 100 when wins + losses > 0, else 0;
\* UNDETERMINED records count in the total only; 3 WIN, 2 LOSS and
\* 1 UNDETERMINED give total 6 and win_rate 60.
C8_WinRate ==
    LET w == CountOf(setups, "WIN")
        l == CountOf(setups, "LOSS")
        u == CountOf(setups, "UNDETERMINED")
        rate == out.res.win_rate
        RateOk == IF w + l > 0
                  THEN rate.num * (w + l) = 100 * w * rate.den
                  ELSE rate.num = 0
        Example == (w = 3 /\ l = 2 /\ u = 1) => rate.num = 60 * rate.den
    IN  /\ out.op = "calculate_stats" =>
              /\ RateOk /\ Example
              /\ out.res.total_setups = Len(setups)
              /\ out.res.wins = w /\ out.res.losses = l /\ out.res.undetermined = u
        /\ out.op = "calc_stats" =>
              /\ RateOk /\ Example
              /\ out.res.total = Len(setups)
              /\ out.res.wins = w /\ out.res.losses = l

\* calculate_stats on 3 WIN, 2 LOSS and 1 UNDETERMINED.
C8_Witness ==
    /\ out.op = "calculate_stats"
    /\ CountOf(setups, "WIN") = 3
    /\ CountOf(setups, "LOSS") = 2
    /\ CountOf(setups, "UNDETERMINED") = 1
    /\ out.res.total_setups = 6
    /\ out.res.win_rate.num = 60 * out.res.win_rate.den

\* C9 (as claimed): on a series shorter than its lookback or period, the
\* empty series included, every soft-default detector returns its neutral
\* value without raising.
C9_NeutralOnShortSeries ==
    /\ (out.op = "find_support_resistance_levels" /\ Len(df) < 100) =>
          out.res = << <<>>, <<>> >>
    /\ (out.op = "triple_touch" /\ Len(df) < 100) => out.res = <<FALSE, FALSE>>
    /\ (out.op = "rolling_triple_touch" /\ Len(df) < 50) =>
          (~out.res.raised /\ out.res.value = <<FALSE, FALSE>>)
    /\ (out.op = "hammer" /\ Len(df) < 1) => out.res = FALSE
    /\ (out.op = "shooting_star" /\ Len(df) < 1) => out.res = FALSE
    /\ (out.op = "engulfing" /\ Len(df) < 2) => out.res = <<FALSE, FALSE>>
    /\ (out.op = "rsi" /\ Len(df) < 14) => out.res = Num(50)

\* Candles of the trailing window (the lookback - 1 candles before the current
\* one) whose high or low is within pips of some level matched by price.
DistinctTouches(levels, price, pips) ==
    LET n == Len(df)
        matched == {k \in 1..Len(levels) : Within(price, levels[k], pips)}
    IN  Cardinality({i \in (n - 99)..(n - 1) :
                        \E k \in matched : \/ Within(df[i].high, levels[k], pips)
                                           \/ Within(df[i].low, levels[k], pips)})

\* C10 (as claimed): when the current candle touches a resistance (support)
\* level, the resistance (support) flag of triple_touch is true iff the number
\* of trailing-window candles within tolerance of any matched level, each
\* counted once, is >= min_touches.
C10_CountsCandlesOnce ==
    (out.op = "triple_touch" /\ Len(df) >= 100) =>
        LET pips == pip_size(symbol) * cfg.touch_window_pips
            sr == find_support_resistance_levels(df, symbol, cfg.touch_window_pips, 100)
            cur == df[Len(df)]
        IN  /\ TouchesAny(cur.high, sr[2], pips) =>
                  out.res[1] = (DistinctTouches(sr[2], cur.high, pips) >= out.arg[1])
            /\ TouchesAny(cur.low, sr[1], pips) =>
                  out.res[2] = (DistinctTouches(sr[1], cur.low, pips) >= out.arg[1])

\* C11 (as claimed): for every series and every min_touches value, the
\* resistance flag of triple_touch is true only if the current candle's high
\* is within tolerance of some resistance level, and the support flag only if
\* its low is within tolerance of some support level; the result is
\* (false, false) when the current candle touches no level.
C11_PerSideTouch ==
    (out.op = "triple_touch" /\ Len(df) >= 100) =>
        LET pips == pip_size(symbol) * cfg.touch_window_pips
            sr == find_support_resistance_levels(df, symbol, cfg.touch_window_pips, 100)
            cur == df[Len(df)]
            touch_h == \E k \in 1..Len(sr[2]) : Within(cur.high, sr[2][k], pips)
            touch_l == \E k \in 1..Len(sr[1]) : Within(cur.low, sr[1][k], pips)
        IN  /\ out.res[1] => touch_h
            /\ out.res[2] => touch_l
            /\ (~touch_h /\ ~touch_l) => out.res = <<FALSE, FALSE>>

\* Sum of sorted[a..b].
RECURSIVE RunSum(_, _, _)
RunSum(sorted, a, b) == IF a > b THEN 0 ELSE sorted[a] + RunSum(sorted, a + 1, b)

\* C12: cluster_levels sorts the extrema ascending and sweeps once: an
\* extremum joins the current cluster iff its distance to the last-added
\* member is <= tolerance, otherwise the mean of the cluster is emitted and a
\* new cluster starts.  So the result is the means of the maximal runs of the
\* sorted extrema whose neighbours are <= tolerance apart, in ascending order;
\* [1.1000, 1.1002, 1.1050] with tolerance 0.0005 give 1.1001 and 1.1050.
C12_ClusterLevels ==
    out.op = "cluster_levels" =>
        LET levels == out.arg[1]
            pips == out.arg[2]
            n == Len(levels)
            sorted == SortSeq(levels, LAMBDA a, b : a < b)
            starts == {k \in 1..n : k = 1 \/ sorted[k] - sorted[k - 1] > pips}
            EndOf(a) == CHOOSE b \in a..n :
                           /\ \A k \in (a + 1)..b : k \notin starts
                           /\ b = n \/ (b + 1) \in starts
            Rank(a) == Cardinality({k \in starts : k <= a})
        IN  /\ Len(out.res) = Cardinality(starts)
            /\ \A a \in starts :
                  out.res[Rank(a)] = [sum |-> RunSum(sorted, a, EndOf(a)),
                                      n |-> EndOf(a) - a + 1]
            /\ (levels = <<11000, 11002, 11050>> /\ pips = 5) =>
                  out.res = << [sum |-> 2 * 11001, n |-> 2], [sum |-> 11050, n |-> 1] >>

\* Unsorted extrema 1.1050, 1.1000, 1.1002 with tolerance 0.0005 have given
\* the two levels 1.1001 and 1.1050.
C12_Witness ==
    /\ out.op = "cluster_levels"
    /\ out.arg = << <<11050, 11000, 11002>>, 5 >>
    /\ out.res = << [sum |-> 22002, n |-> 2], [sum |-> 11050, n |-> 1] >>

\* C13: detect_setup_only at a valid index B returns CALL exactly when
\* touch_low, hammer and rsi < rsi_oversold hold on the slice ending at candle
\* B - 1, and PUT exactly when touch_high, shooting_star and
\* rsi > rsi_overbought hold there; replacing candle B by a candle of any
\* other open and close leaves the result unchanged.
C13_SetupOnlyRule ==
    ValidHistCall("detect_setup_only") =>
        LET B == out.arg[1]
            upToA == SubSeq(df, 1, B)
            tt == triple_touch(upToA, symbol, cfg.min_touches, cfg.touch_window_pips, 100)
            r == rsi(upToA, 14)
            call == tt[2] /\ hammer(upToA) /\ RsiLess(r, cfg.rsi_oversold)
            put == tt[1] /\ shooting_star(upToA) /\ RsiGreater(r, cfg.rsi_overbought)
        IN  /\ (out.res[1] = "CALL") <=> call
            /\ (out.res[1] = "PUT") <=> put
            /\ \A kind \in ShapeKinds :
                  out.res = detect_setup_only(Append(upToA, Shape(kind, upToA[B].close, B)),
                                              symbol, cfg, Some(B))

\* detect_setup_only has returned CALL at an index whose candle B is bearish.
C13_Witness ==
    /\ ValidHistCall("detect_setup_only")
    /\ out.res[1] = "CALL"
    /\ df[out.arg[1] + 1].close < df[out.arg[1] + 1].open

\* C14: at every valid index the condition set returned by get_signal
\* contains triggered_pattern; it is "Hammer" exactly when the signal is CALL,
\* "Shooting Star" exactly when the signal is PUT, and none exactly when there
\* is no signal.
C14_TriggeredPattern ==
    ValidHistCall("get_signal") =>
        /\ "triggered_pattern" \in DOMAIN out.res[2]
        /\ (out.res[2].triggered_pattern = "Hammer") <=> (out.res[1] = "CALL")
        /\ (out.res[2].triggered_pattern = "Shooting Star") <=> (out.res[1] = "PUT")
        /\ (out.res[2].triggered_pattern = NoSignal) <=> (out.res[1] = NoSignal)

\* get_signal has returned PUT with triggered_pattern "Shooting Star".
C14_Witness ==
    /\ ValidHistCall("get_signal")
    /\ out.res[1] = "PUT"
    /\ out.res[2].triggered_pattern = "Shooting Star"

\* C15 (as claimed): get_support_resistance_price at historical_index = i
\* reports a level computed only from the candles up to candle A = i - 1:
\* the series cut after candle A gives the same (price_level, level_type),
\* and the reported level is found among the levels triple_touch used for the
\* setup at that index, those of the slice ending at candle A.
C15_LevelFromCandleA ==
    ValidHistCall("get_support_resistance_price") =>
        LET i == out.arg[1]
            upToA == SubSeq(df, 1, i)
            conds == get_signal(df, symbol, cfg, out.arg)[2]
            pips == pip_size(symbol) * cfg.touch_window_pips
            sr == find_support_resistance_levels(upToA, symbol, cfg.touch_window_pips, 100)
        IN  /\ ~out.res.raised
            /\ out.res = get_support_resistance_price(upToA, symbol, cfg, conds, out.arg)
            /\ out.res.value = LevelTouched(upToA[i], sr, pips, conds)

\* The slice the richer get_signal works on for the call just made.
RichCurrentLen ==
    IF out.arg = None
    THEN Len(df)
    ELSE IF out.arg[1] + 1 < 0
    THEN Max2(0, Len(df) + out.arg[1] + 1)
    ELSE Min2(out.arg[1] + 1, Len(df))

\* C16: in the richer rule set, bollinger_bands and rsi raise an explicit
\* error when given fewer than period candles, and get_signal either returns
\* no signal with an empty condition set (fewer than 50 candles) or
\* propagates that error; insufficient data never yields CALL or PUT, nor a
\* defaulted indicator value.
C16_NoSilentDefault ==
    /\ out.op = "rich_rsi" =>
          (out.res.raised <=> Len(df) < out.arg[1])
    /\ out.op = "bollinger_bands" =>
          (out.res.raised <=> Len(df) < out.arg[1])
    /\ (out.op \in {"rich_rsi", "bollinger_bands"} /\ out.res.raised) =>
          out.res.value = "ValueError"
    /\ out.op = "rich_get_signal" =>
          LET n == RichCurrentLen
              short == n < cfg.ti_rsi_period \/ n < cfg.bb_period
          IN  /\ n < 50 => out.res = Returned(<<NoSignal, EmptyDict>>)
              /\ (n >= 50 /\ short) => (out.res.raised /\ out.res.value = "ValueError")
              /\ (n >= 50 /\ ~short) =>
                    (/\ ~out.res.raised
                     /\ out.res.value[2] # EmptyDict
                     /\ out.res.value[2].rsi = rsi(SubSeq(df, 1, n), cfg.ti_rsi_period))

\* get_signal has propagated the Bollinger Bands error: 50 or more candles,
\* fewer than the bands' period.
C16_Witness ==
    /\ out.op = "rich_get_signal"
    /\ RichCurrentLen >= 50
    /\ RichCurrentLen < cfg.bb_period
    /\ cfg.ti_rsi_period <= RichCurrentLen
    /\ out.res.raised

\* close is more than k sample standard deviations below (side = 1) or above
\* (side = -1) the mean of the closes w, computed from the deviations
\* dev[j] = w[j] - close.
OutsideBand(close, w, k, side) ==
    LET n == Len(w)
        dev == [j \in 1..n |-> side * (w[j] - close)]
        s == SumSeq(dev)
        q == SumSeq([j \in 1..n |-> dev[j] * dev[j]])
    IN  n >= 2 /\ s > 0 /\ s * s * (n - 1) > k * k * n * (n * q - s * s)

\* C18: the richer rule set, evaluated on the single last candle, returns
\* CALL iff touch_low, (bullish engulfing or bullish pin bar or doji),
\* rsi < oversold, close > open and close < lower Bollinger band all hold,
\* and PUT iff touch_high, (bearish engulfing or bearish pin bar or doji),
\* rsi > overbought, close < open and close > upper Bollinger band all hold;
\* the two conditions are never both true.
C18_RichRule ==
    (out.op = "rich_get_signal" /\ ~out.res.raised /\ RichCurrentLen >= 50) =>
        LET n == RichCurrentLen
            cur == SubSeq(df, 1, n)
            last == cur[n]
            closes == [j \in 1..cfg.bb_period |-> cur[n - cfg.bb_period + j].close]
            tt == rolling_triple_touch(cur, symbol, cfg.min_touches, cfg.touch_window_pips).value
            eng == engulfing(cur, cfg.engulfing_min_ratio10)
            r == rsi(cur, cfg.ti_rsi_period)
            doji == Abs(last.close - last.open) < 10 * pip_size(symbol)
            call == /\ tt[2]
                    /\ (eng[1] \/ is_pin_bar(cur, TRUE) \/ doji)
                    /\ RsiLess(r, cfg.ti_rsi_oversold)
                    /\ last.close > last.open
                    /\ OutsideBand(last.close, closes, cfg.bb_std_dev, 1)
            put == /\ tt[1]
                   /\ (eng[2] \/ is_pin_bar(cur, FALSE) \/ doji)
                   /\ RsiGreater(r, cfg.ti_rsi_overbought)
                   /\ last.close < last.open
                   /\ OutsideBand(last.close, closes, cfg.bb_std_dev, -1)
        IN  /\ (out.res.value[1] = "CALL") <=> call
            /\ (out.res.value[1] = "PUT") <=> put
            /\ ~(call /\ put)

\* The richer get_signal has returned CALL.
C18_Witness ==
    /\ out.op = "rich_get_signal"
    /\ ~out.res.raised
    /\ out.res.value[1] = "CALL"
    /\ out.res.value[2].direction_bull

\* C17 (as claimed): hammer returns false whenever the last candle's body
\* |close - open| is 0, in both variants and for any open, high, low and
\* close; for body > 0 it is true iff lower_shadow > 2*body and
\* upper_shadow < 0.5*body (strict) or upper_shadow < body (loose); every
\* strict-variant hammer is a loose-variant hammer.
C17_HammerVariants ==
    out.op \in {"hammer", "loose_hammer"} =>
        LET k == out.arg[1]
            body == Abs(k.close - k.open)
            lower == Min2(k.close, k.open) - k.low
            upper == k.high - Max2(k.close, k.open)
        IN  /\ body = 0 => out.res = FALSE
            /\ (body > 0 /\ out.op = "hammer") =>
                  (out.res <=> (lower > 2 * body /\ 2 * upper < body))
            /\ (body > 0 /\ out.op = "loose_hammer") =>
                  (out.res <=> (lower > 2 * body /\ upper < body))
            /\ hammer(out.arg) => loose_hammer(out.arg)

\* C19: two Telegram alerts delivered for one (symbol, setup name) key are
\* never less than cooldown_minutes apart, concurrent calls included.
C19_CooldownHolds ==
    \A k \in AlertKeys : \A i, j \in 1..Len(sent[k]) :
        i < j => sent[k][j] - sent[k][i] >= cooldown_minutes

\* Seconds from minute:second to second 0 of the next minute m with
\* m mod 5 = 4 strictly after the current minute, across the hour's end.
SecondsToNextCheck(minute, second) ==
    LET d == CHOOSE k \in 1..5 : ((minute + k) % 60) % 5 = 4
    IN  d * 60 - second

\* C20: at every UTC minute and second get_sleep_seconds returns, without
\* raising, the larger of 5 and the seconds to the next check minute.
C20_SleepTotal ==
    out.op = "get_sleep_seconds" =>
        /\ ~out.res.raised
        /\ out.res.value = Max2(5, SecondsToNextCheck(out.arg[1], out.arg[2]))

\* The sleep is right at every time outside the last minute of the hour.
C20_SleepBeforeLastMinute ==
    (out.op = "get_sleep_seconds" /\ out.arg[1] # 59) =>
        /\ ~out.res.raised
        /\ out.res.value = Max2(5, SecondsToNextCheck(out.arg[1], out.arg[2]))

\* C26: whenever get_signal returns CALL or PUT, in historical mode at index
\* B or in live mode, detect_setup_only on the same series, configuration
\* and index returns the same signal.
C26_ConfirmationStrengthens ==
    (out.op = "get_signal" /\ out.res[1] # NoSignal) =>
        detect_setup_only(df, symbol, cfg, out.arg)[1] = out.res[1]

\* get_signal has returned a signal at a valid index.
C26_Witness ==
    /\ ValidHistCall("get_signal")
    /\ out.res[1] \in {"CALL", "PUT"}

\* detect_setup_only has found a setup that get_signal does not confirm.
C26_ConverseFails ==
    /\ ValidHistCall("detect_setup_only")
    /\ out.res[1] # NoSignal
    /\ get_signal(df, symbol, cfg, out.arg)[1] = NoSignal

\* C28: on a series of at least 2 candles, get_signal without
\* historical_index returns the signal and condition set it returns with
\* historical_index = len(series) - 1, and so does detect_setup_only.
C28_LiveIsLastIndex ==
    (out.arg = None /\ Len(df) >= 2) =>
        /\ out.op = "get_signal" =>
              out.res = get_signal(df, symbol, cfg, Some(Len(df) - 1))
        /\ out.op = "detect_setup_only" =>
              out.res = detect_setup_only(df, symbol, cfg, Some(Len(df) - 1))

\* get_signal in live mode has returned a signal.
C28_Witness ==
    /\ out.op = "get_signal"
    /\ out.arg = None
    /\ out.res[1] \in {"CALL", "PUT"}

C24_SendEffect ==
    [][\A t \in Tasks :
        (tasks'[t] # tasks[t] /\ tasks'[t].pc = "idle") =>
            LET req == tasks'[t].req
                key == cooldown_key(req)
                valid == req.symbol # "" /\ req.setup_name # ""
                uncooled == IF valid
                            THEN \/ tasks[t].pc = "awaiting"
                                 \/ check_cooldown(cooldown_tracker, key, now)
                            ELSE FALSE
                delivered == IF valid THEN sent'[key] # sent[key] ELSE FALSE
            IN  IF uncooled /\ (tasks'[t].log_success \/ delivered)
                THEN /\ tasks'[t].returned = Some(TRUE)
                     /\ cooldown_tracker' = [cooldown_tracker EXCEPT ![key] = Some(now)]
                     /\ alert_history' =
                            Append(alert_history, [timestamp |-> now, result |-> req])
                ELSE /\ tasks'[t].returned = Some(FALSE)
                     /\ UNCHANGED <<cooldown_tracker, alert_history>>
      ]_vars

\* The alerts sent so far in SpecHistory, one every cooldown_minutes.
AlertsAdded ==
    IF cooldown_tracker[cooldown_key(HistoryRequest)] = None
    THEN 0
    ELSE cooldown_tracker[cooldown_key(HistoryRequest)][1] \div cooldown_minutes + 1

\* alert_history holds at most 1000 entries: the most recently added ones,
\* in the order they were added.
C25_HistoryBounded ==
    LET n == Len(alert_history) IN
    /\ n = Min2(AlertsAdded, 1000)
    /\ \A k \in 1..n :
          alert_history[k].timestamp = (AlertsAdded - n + k - 1) * cooldown_minutes

\* alert_history has been trimmed.
C25_Trimmed == AlertsAdded > 1000

\* C25: after any sequence of successful alerts alert_history holds at most
\* 1000 entries, the most recently added ones in the order they were added,
\* and get_recent_alerts(count) returns the last min(count, len) of them.
C25_History ==
    /\ C25_HistoryBounded
    /\ out.op = "get_recent_alerts" =>
          LET n == Len(alert_history)
              m == Min2(out.arg[1], n)
          IN  out.res = SubSeq(alert_history, n - m + 1, n)

\* get_recent_alerts returns the last min(count, len) entries for every
\* count of at least 1.
C25_RecentPositive ==
    (out.op = "get_recent_alerts" /\ out.arg[1] >= 1) =>
        LET n == Len(alert_history)
            m == Min2(out.arg[1], n)
        IN  out.res = SubSeq(alert_history, n - m + 1, n)

\* The start of the first check window (second 0 of a minute m with
\* m mod 5 = 4) strictly after t seconds.
NextWindowStart(t) == CHOOSE w \in (t + 1)..(t + 300) : w % 300 = 240

\* C21: from any current time, the loop that sleeps for sleep_until_next()
\* wakes inside the next window in which should_check() is true.
C21_WakesInNextWindow ==
    out.op = "sleep_until_next" =>
        LET current == out.arg[1] * 60 + out.arg[2]
            wake == current + out.res
        IN  /\ should_check(wake)
            /\ wake >= NextWindowStart(current)
            /\ wake <= NextWindowStart(current) + 30

\* A sleep computed inside minute m, m mod 5 = 4, ends at the start of the
\* next window.
C21_FromCheckMinute ==
    (out.op = "sleep_until_next" /\ out.arg[1] % 5 = 4) =>
        out.arg[1] * 60 + out.arg[2] + out.res
            = NextWindowStart(out.arg[1] * 60 + out.arg[2])

\* C22: every alert a pass of scanner.main or test1.main sends and logs for
\* the symbol carries the decision CALL or PUT; a no-signal decision of
\* get_signal produces no alert.
C22_AlertsOnlyOnSignal ==
    out.op \in {"scanner.main", "test1.main"} =>
        \A k \in 1..Len(out.res) : out.res[k].signal \in {"CALL", "PUT"}

\* A pass outside the alert window, or on fewer than 30 candles, sends no
\* alert.
C22_QuietOutsideWindow ==
    (out.op \in {"scanner.main", "test1.main"}
       /\ (~out.arg[1] \/ Len(df) < ScannerMinLen))
    => out.res = <<>>

\* C23: in the live loops a detected signal is suppressed as a duplicate only
\* if an alert for the symbol was sent less than 60 seconds of elapsed time
\* earlier: never the first signal, never a signal whole days later.
C23_SuppressedOnlyWithinMinute ==
    out.op \in Programs =>
        \A k \in DOMAIN out.res :
            out.res[k][3] = "suppressed" =>
                /\ out.res[k][2] # None
                /\ out.arg[1] - out.res[k][2][1] < 60

\* The rule of backtest.main alone, which measures the whole elapsed time.
C23_BacktestRule ==
    out.op = "backtest.main" =>
        \A k \in DOMAIN out.res :
            out.res[k][3] = "suppressed" =>
                /\ out.res[k][2] # None
                /\ out.arg[1] - out.res[k][2][1] < 60

\* A suppression the claim allows: the second setup of one master_script pass.
C23_SameMinuteSuppressed ==
    /\ out.op = "master.main"
    /\ Len(out.res) = 2
    /\ out.res[1][3] = "alerted"
    /\ out.res[2][3] = "suppressed"

\* The first signal of a symbol, suppressed.
C23_FirstSuppressed ==
    /\ out.op \in Programs
    /\ \E k \in DOMAIN out.res :
         out.res[k][3] = "suppressed" /\ out.res[k][2] = None

\* A signal a whole day after the previous alert, suppressed.
C23_DayLaterSuppressed ==
    /\ out.op = "custom.main"
    /\ \E k \in DOMAIN out.res :
         /\ out.res[k][3] = "suppressed"
         /\ out.res[k][2] # None
         /\ out.arg[1] - out.res[k][2][1] >= 24 * 60 * 60

====
